---------------------------- MODULE Spec2Model ----------------------------
(***************************************************************************)
(* A model of xsql's SQL rewriting engine (named.go): the skip helpers,    *)
(* the named-parameter extractor, the parameter lookup builder, the        *)
(* placeholder rewriter and Rebind, which composes them.                   *)
(*                                                                         *)
(* Text is a sequence of characters, each a one-character string.          *)
(* Offsets are Go's: they start at 0, s[i] is At(s, i) and s[lo:hi] is     *)
(* Slice(s, lo, hi).  Every character of the model is ASCII, so            *)
(* utf8.DecodeRuneInString always yields width 1.                          *)
(***************************************************************************)
EXTENDS Integers, Sequences, FiniteSets, TLC

VARIABLES
    query,   \* the SQL text handed to the operation
    ph,      \* the Placeholder dialect
    params,  \* the variadic arguments of Rebind (a sequence of Go values)
    pc,      \* which operation has run: "ready" before any
    ret,     \* what the operation returned (or how it failed to return)
    ret2,    \* what a second rewriting pass over ret.text returned
    mapper,  \* the Mapper: its plan cache and its struct index cache
    dest,    \* the destination type T of Get[T], Query[T] and scanWithMapper[T]
    cursor,  \* the rows of the driver: labels, data, position, errors
    calls,   \* how many calls the Mapper has served
    procs    \* the goroutines inside getPlan: where each is and what it holds

vars == <<query, ph, params, pc, ret, ret2, mapper, dest, cursor, calls, procs>>
mapperVars == <<mapper, dest, cursor, calls, procs>>

-----------------------------------------------------------------------------
(* Bounds of the model *)

\* Every text of at most MaxLen characters over Alphabet is an input.
MaxLen == 3
\* Every text of at most MaxFocusLen characters over one of FocusAlphabets is
\* an input.
MaxFocusLen == 5

-----------------------------------------------------------------------------
(* Go strings *)

At(s, i) == s[i + 1]
Slice(s, lo, hi) == SubSeq(s, lo + 1, hi)
SliceFrom(s, lo) == SubSeq(s, lo + 1, Len(s))

\* The character U+0060, which a TLA+ string cannot hold.
Backtick == "backtick"

hasPrefix(s, p) == Len(s) >= Len(p) /\ SubSeq(s, 1, Len(p)) = p

\* strings.Index: the offset of the first occurrence of sub in s, or -1.
Index(s, sub) ==
    LET hits == { p \in 0..(Len(s) - Len(sub)) : Slice(s, p, p + Len(sub)) = sub }
    IN  IF hits = {} THEN -1 ELSE CHOOSE p \in hits : \A r \in hits : p <= r

LowerLetters == {"a","b","c","d","e","f","g","h","i","j","k","l","m",
                 "n","o","p","q","r","s","t","u","v","w","x","y","z"}
UpperLetters == {"A","B","C","D","E","F","G","H","I","J","K","L","M",
                 "N","O","P","Q","R","S","T","U","V","W","X","Y","Z"}
Digits == {"0","1","2","3","4","5","6","7","8","9"}

IsLetter(c) == c \in LowerLetters \cup UpperLetters
IsDigit(c) == c \in Digits

LowerOf == [c \in UpperLetters |->
    CASE c = "A" -> "a" [] c = "B" -> "b" [] c = "C" -> "c" [] c = "D" -> "d"
      [] c = "E" -> "e" [] c = "F" -> "f" [] c = "G" -> "g" [] c = "H" -> "h"
      [] c = "I" -> "i" [] c = "J" -> "j" [] c = "K" -> "k" [] c = "L" -> "l"
      [] c = "M" -> "m" [] c = "N" -> "n" [] c = "O" -> "o" [] c = "P" -> "p"
      [] c = "Q" -> "q" [] c = "R" -> "r" [] c = "S" -> "s" [] c = "T" -> "t"
      [] c = "U" -> "u" [] c = "V" -> "v" [] c = "W" -> "w" [] c = "X" -> "x"
      [] c = "Y" -> "y" [] c = "Z" -> "z"]

\* strings.ToLower on ASCII text.
ToLower(s) == [k \in 1..Len(s) |-> IF s[k] \in UpperLetters THEN LowerOf[s[k]] ELSE s[k]]

DigitChar == [d \in 0..9 |->
    CASE d = 0 -> "0" [] d = 1 -> "1" [] d = 2 -> "2" [] d = 3 -> "3" [] d = 4 -> "4"
      [] d = 5 -> "5" [] d = 6 -> "6" [] d = 7 -> "7" [] d = 8 -> "8" [] d = 9 -> "9"]

\* strconv.AppendInt(out, n, 10) for n >= 0: the decimal digits of n.
RECURSIVE Itoa(_)
Itoa(n) == IF n < 10 THEN <<DigitChar[n]>> ELSE Itoa(n \div 10) \o <<DigitChar[n % 10]>>

-----------------------------------------------------------------------------
(* Placeholder dialects *)

PlaceholderQuestion == "PlaceholderQuestion"
PlaceholderDollar   == "PlaceholderDollar"
PlaceholderAtP      == "PlaceholderAtP"
PlaceholderColonNum == "PlaceholderColonNum"
Placeholder == {PlaceholderQuestion, PlaceholderDollar, PlaceholderAtP, PlaceholderColonNum}

-----------------------------------------------------------------------------
(* Errors: "" is Go's nil error *)

NoErr == ""
ErrNilParams == "xsql: named bind: nil params"
ErrUnsupportedArg == "xsql: named bind: params must be struct or map[string]any"
ErrDuplicateKeyTag == "xsql: named bind: duplicate key from struct tags/fields"
ErrMissingValue == "xsql: named bind: missing value"
ErrSingleQuoted == "xsql: unterminated single-quoted string"
ErrDoubleQuoted == "xsql: unterminated double-quoted identifier"
ErrBacktickQuoted == "xsql: unterminated backtick-quoted identifier"
ErrBlockComment == "xsql: unterminated block comment"
ErrDollarQuoted == "xsql: unterminated dollar-quoted string"

-----------------------------------------------------------------------------
(* The skip helpers.  Each returns the offset after the region, or offset 0 *)
(* with an error when the region is not closed.                             *)

\* The loop shared by skipSingleQuoted, skipDoubleQuoted, skipBacktickQuoted:
\* a doubled quote is an escape.
RECURSIVE skipQuotedLoop(_, _, _, _)
skipQuotedLoop(s, i, q, e) ==
    IF i >= Len(s) THEN [end |-> 0, err |-> e]
    ELSE IF At(s, i) = q
         THEN IF i + 1 < Len(s) /\ At(s, i + 1) = q
              THEN skipQuotedLoop(s, i + 2, q, e)
              ELSE [end |-> i + 1, err |-> NoErr]
         ELSE skipQuotedLoop(s, i + 1, q, e)

skipSingleQuoted(s, i) == skipQuotedLoop(s, i, "'", ErrSingleQuoted)
skipDoubleQuoted(s, i) == skipQuotedLoop(s, i, "\"", ErrDoubleQuoted)
skipBacktickQuoted(s, i) == skipQuotedLoop(s, i, Backtick, ErrBacktickQuoted)

RECURSIVE skipLineComment(_, _)
skipLineComment(s, i) ==
    IF i >= Len(s) THEN i
    ELSE IF At(s, i) = "\n" THEN i + 1 ELSE skipLineComment(s, i + 1)

RECURSIVE skipBlockComment(_, _)
skipBlockComment(s, i) ==
    IF i >= Len(s) - 1 THEN [end |-> 0, err |-> ErrBlockComment]
    ELSE IF At(s, i) = "*" /\ At(s, i + 1) = "/"
         THEN [end |-> i + 2, err |-> NoErr]
         ELSE skipBlockComment(s, i + 1)

isTagChar(r) == r = "_" \/ IsLetter(r) \/ IsDigit(r)

\* The end of the tag scan of skipDollarQuoted: the first offset from j on
\* that is the end of text, a "$" or not a tag character.
RECURSIVE dollarTagEnd(_, _)
dollarTagEnd(s, j) ==
    IF j < Len(s) /\ At(s, j) # "$" /\ isTagChar(At(s, j))
    THEN dollarTagEnd(s, j + 1)
    ELSE j

\* skipDollarQuoted handles $$...$$ and $tag$...$tag$.
skipDollarQuoted(s, i) ==
    IF At(s, i) # "$" THEN [end |-> 0, ok |-> FALSE, err |-> NoErr]
    ELSE LET j == dollarTagEnd(s, i + 1) IN
         IF j >= Len(s) \/ At(s, j) # "$"
         THEN [end |-> 0, ok |-> FALSE, err |-> NoErr]
         ELSE LET tag == Slice(s, i, j + 1)
                  k == j + 1
                  idx == Index(SliceFrom(s, k), tag)
              IN  IF idx < 0
                  THEN [end |-> 0, ok |-> TRUE, err |-> ErrDollarQuoted]
                  ELSE [end |-> k + idx + Len(tag), ok |-> TRUE, err |-> NoErr]

-----------------------------------------------------------------------------
(* The Placeholder Rewriter *)

\* The marker the "?" case appends for the counter value arg.
marker(p, arg) ==
    CASE p = PlaceholderDollar   -> <<"$">> \o Itoa(arg)
      [] p = PlaceholderAtP      -> <<"@", "p">> \o Itoa(arg)
      [] p = PlaceholderColonNum -> <<":">> \o Itoa(arg)
      [] OTHER                   -> <<"?">>

\* One region case of the loop: out = append(out, query[i:j]...); i = j.
\* The skip helper's error is dropped, so j may be 0: query[i:0] with i > 0
\* is a slice-bounds panic, and with i = 0 the loop state (i, arg, out) does
\* not change, so the loop never ends.
RECURSIVE rewriteLoop(_, _, _, _, _)
copyRegion(q, p, i, arg, out, j) ==
    IF j < i THEN [status |-> "panic", text |-> <<>>]
    ELSE IF j = i THEN [status |-> "hang", text |-> <<>>]
    ELSE rewriteLoop(q, p, j, arg, out \o Slice(q, i, j))

rewriteLoop(q, p, i, arg, out) ==
    IF i >= Len(q) THEN [status |-> "ok", text |-> out]
    ELSE LET r == At(q, i)
             plain == rewriteLoop(q, p, i + 1, arg, out \o <<r>>)
         IN  CASE r = "'"  -> copyRegion(q, p, i, arg, out, skipSingleQuoted(q, i + 1).end)
               [] r = "\"" -> copyRegion(q, p, i, arg, out, skipDoubleQuoted(q, i + 1).end)
               [] r = Backtick -> copyRegion(q, p, i, arg, out, skipBacktickQuoted(q, i + 1).end)
               [] r = "-"  -> IF hasPrefix(SliceFrom(q, i), <<"-", "-">>)
                              THEN copyRegion(q, p, i, arg, out, skipLineComment(q, i + 2))
                              ELSE plain
               [] r = "/"  -> IF hasPrefix(SliceFrom(q, i), <<"/", "*">>)
                              THEN copyRegion(q, p, i, arg, out, skipBlockComment(q, i + 2).end)
                              ELSE plain
               [] r = "$"  -> LET d == skipDollarQuoted(q, i) IN
                              IF d.ok THEN copyRegion(q, p, i, arg, out, d.end) ELSE plain
               [] r = "?"  -> rewriteLoop(q, p, i + 1, arg + 1, out \o marker(p, arg))
               [] OTHER    -> plain

rewritePlaceholders(q, p) ==
    IF p = PlaceholderQuestion THEN [status |-> "ok", text |-> q]
    ELSE rewriteLoop(q, p, 0, 1, <<>>)

-----------------------------------------------------------------------------
(* Go values, as reflect sees them.  kind is the reflect.Kind; elem is the  *)
(* element kind of a slice or array, the key kind of a map, the pointee     *)
(* kind of a pointer; items holds an int's number, a slice's or array's     *)
(* elements, a map's entries in the order MapRange yields them, a struct's  *)
(* fields in declaration order, a non-nil pointer's pointee.                *)

GoValue(kind, elem, isNil, items) ==
    [kind |-> kind, elem |-> elem, isNil |-> isNil, items |-> items]

Invalid == GoValue("invalid", "", TRUE, <<>>)
GoInt(n) == GoValue("int", "", FALSE, <<n>>)
SliceOf(elem, items) == GoValue("slice", elem, FALSE, items)
ArrayOf(elem, items) == GoValue("array", elem, FALSE, items)
MapOf(keyKind, entries) == GoValue("map", keyKind, FALSE, entries)
StructOf(fields) == GoValue("struct", "", FALSE, fields)
PtrTo(v) == GoValue("ptr", v.kind, FALSE, <<v>>)
NilPtr(elem) == GoValue("ptr", elem, TRUE, <<>>)

Entry(key, val) == [key |-> key, val |-> val]
\* A struct field: exported is f.PkgPath == "", tag is f.Tag.Get("db").
StructField(name, exported, anonymous, tag, val) ==
    [name |-> name, exported |-> exported, anonymous |-> anonymous, tag |-> tag, val |-> val]

\* A []any: Go tells a nil slice from an empty one.
NilSlice == [isNil |-> TRUE, items |-> <<>>]
MakeSlice(items) == [isNil |-> FALSE, items |-> items]
\* The slice a variadic parameter receives: nil when no argument is passed.
Variadic(ps) == IF Len(ps) = 0 THEN NilSlice ELSE MakeSlice(ps)

\* What a call returned.  status is "ok" when it returned, "panic" when it
\* ended in a runtime panic, "hang" when it entered a loop that never ends.
Returned(text, args, err) == [status |-> "ok", text |-> text, args |-> args, err |-> err]
NotReturned(status) == [status |-> status, text |-> <<>>, args |-> NilSlice, err |-> NoErr]

-----------------------------------------------------------------------------
(* The Named Parameter Extractor *)

\* A token that starts after its colon
nameToken_AfterColon(name, start, end) == [name |-> name, start |-> start + 1, end |-> end]
nameToken(name, start, end) == [name |-> name, start |-> start, end |-> end]

IsIdentChar(r) == r = "_" \/ IsLetter(r) \/ IsDigit(r)

RECURSIVE identEnd(_, _)
identEnd(s, i) == IF i < Len(s) /\ IsIdentChar(At(s, i)) THEN identEnd(s, i + 1) ELSE i

parseIdent(s, i) ==
    LET e == identEnd(s, i)
    IN  IF e = i THEN [name |-> <<>>, end |-> i] ELSE [name |-> Slice(s, i, e), end |-> e]

RECURSIVE findLoop(_, _, _)
\* One region case of findNamedParams: the helper's error ends the scan.
skipOrFail(q, out, sk) ==
    IF sk.err # NoErr THEN [toks |-> <<>>, err |-> sk.err] ELSE findLoop(q, sk.end, out)

findLoop(q, i, out) ==
    IF i >= Len(q) THEN [toks |-> out, err |-> NoErr]
    ELSE LET r == At(q, i)
             plain == findLoop(q, i + 1, out)
         IN  CASE r = "'"  -> skipOrFail(q, out, skipSingleQuoted(q, i + 1))
               [] r = "\"" -> skipOrFail(q, out, skipDoubleQuoted(q, i + 1))
               [] r = Backtick -> skipOrFail(q, out, skipBacktickQuoted(q, i + 1))
               [] r = "-"  -> IF hasPrefix(SliceFrom(q, i), <<"-", "-">>)
                              THEN findLoop(q, skipLineComment(q, i + 2), out)
                              ELSE plain
               [] r = "/"  -> IF hasPrefix(SliceFrom(q, i), <<"/", "*">>)
                              THEN skipOrFail(q, out, skipBlockComment(q, i + 2))
                              ELSE plain
               [] r = "$"  -> LET d == skipDollarQuoted(q, i) IN
                              IF d.err # NoErr THEN [toks |-> <<>>, err |-> d.err]
                              ELSE IF d.ok THEN findLoop(q, d.end, out)
                              ELSE plain
               [] r = ":"  -> IF hasPrefix(SliceFrom(q, i), <<":", ":">>)
                              THEN findLoop(q, i + 2, out)
                              ELSE LET id == parseIdent(q, i + 1) IN
                                   IF id.name # <<>>
                                   THEN findLoop(q, id.end, Append(out, nameToken(id.name, i, id.end)))
                                   ELSE plain
               [] OTHER    -> plain

findNamedParams(q) == findLoop(q, 0, <<>>)

-----------------------------------------------------------------------------
(* The Parameter Lookup Builder.  A Go map[string]any is a sequence of      *)
(* entries with distinct keys.                                              *)

HasKey(m, key) == \E k \in 1..Len(m) : m[k].key = key
\* m[key] = val
Store(m, key, val) ==
    IF HasKey(m, key)
    THEN [k \in 1..Len(m) |-> IF m[k].key = key THEN Entry(key, val) ELSE m[k]]
    ELSE Append(m, Entry(key, val))
\* m[key], for a key the map holds
Load(m, key) == m[CHOOSE k \in 1..Len(m) : m[k].key = key].val

\* The loops "for rv.Kind() == reflect.Pointer" of looksBindable,
\* buildParamLookup and addStructFields: the value the chain ends at, or the
\* nil pointer that stops it.
RECURSIVE derefChain(_)
derefChain(v) == IF v.kind = "ptr" /\ ~v.isNil THEN derefChain(v.items[1]) ELSE v

looksBindable(v) ==
    LET rv == derefChain(v)
    IN  IF rv.kind = "ptr" THEN FALSE
        ELSE IF rv.kind = "map" THEN rv.elem = "string"
        ELSE rv.kind = "struct"

\* addStructFields(dst, v), from field i (1-based) on.  A result is the map,
\* the error, and whether v.Field(i).Interface() panicked: reflect refuses
\* to hand out a value read through an unexported field.
RECURSIVE addFieldsFrom(_, _, _)
addStructFields(dst, v) == addFieldsFrom(dst, v.items, 1)

addFieldsFrom(dst, fields, i) ==
    IF i > Len(fields) THEN [m |-> dst, err |-> NoErr, panic |-> FALSE]
    ELSE LET f == fields[i]
             fv == derefChain(f.val)
             name == IF f.tag = <<>> THEN f.name ELSE f.tag
             key == ToLower(name)
         IN  IF ~f.exported /\ ~f.anonymous THEN addFieldsFrom(dst, fields, i + 1)
             ELSE IF f.anonymous /\ fv.kind = "struct"
             THEN LET sub == addStructFields(dst, fv) IN
                  IF sub.err # NoErr \/ sub.panic THEN sub
                  ELSE addFieldsFrom(sub.m, fields, i + 1)
             ELSE IF f.tag = <<"-">> THEN addFieldsFrom(dst, fields, i + 1)
             ELSE IF HasKey(dst, key) THEN [m |-> dst, err |-> ErrDuplicateKeyTag, panic |-> FALSE]
             ELSE IF ~f.exported THEN [m |-> dst, err |-> NoErr, panic |-> TRUE]
             ELSE addFieldsFrom(Store(dst, key, f.val), fields, i + 1)

\* The map branch: m[strings.ToLower(key)] = value, entry after entry.
RECURSIVE addMapEntries(_, _, _)
addMapEntries(m, entries, i) ==
    IF i > Len(entries) THEN m
    ELSE addMapEntries(Store(m, ToLower(entries[i].key), entries[i].val), entries, i + 1)

buildParamLookup(p) ==
    LET rv == derefChain(p)
    IN  CASE rv.kind = "ptr" -> [m |-> <<>>, err |-> ErrNilParams, panic |-> FALSE]
          [] rv.kind = "map" ->
                IF rv.elem # "string"
                THEN [m |-> <<>>, err |-> ErrUnsupportedArg, panic |-> FALSE]
                ELSE [m |-> addMapEntries(<<>>, rv.items, 1), err |-> NoErr, panic |-> FALSE]
          [] rv.kind = "struct" ->
                LET r == addStructFields(<<>>, rv) IN
                IF r.err # NoErr THEN [m |-> <<>>, err |-> r.err, panic |-> FALSE] ELSE r
          [] OTHER -> [m |-> <<>>, err |-> ErrUnsupportedArg, panic |-> FALSE]

\* A lookup that compares names as written; C9 must tell it from lookup.
lookup_CaseSensitive(m, name) ==
    IF HasKey(m, name) THEN [val |-> Load(m, name), ok |-> TRUE]
    ELSE [val |-> Invalid, ok |-> FALSE]

\* paramLookup.lookup
lookup(m, name) ==
    LET key == ToLower(name)
    IN  IF HasKey(m, key) THEN [val |-> Load(m, key), ok |-> TRUE]
        ELSE [val |-> Invalid, ok |-> FALSE]

\* An isSliceOrArray without the []byte exception; C6 must tell it from
\* isSliceOrArray.
isSliceOrArray_BytesExpand(v) ==
    CASE v.kind = "invalid" -> FALSE
      [] v.kind = "slice" -> TRUE
      [] v.kind = "array" -> TRUE
      [] OTHER -> FALSE

isSliceOrArray(v) ==
    CASE v.kind = "invalid" -> FALSE
      [] v.kind = "slice" -> v.elem # "uint8"
      [] v.kind = "array" -> TRUE
      [] OTHER -> FALSE

-----------------------------------------------------------------------------
(* Named binding *)

\* n "?" joined by commas, n >= 1
RECURSIVE marks(_)
marks(n) == IF n <= 1 THEN <<"?">> ELSE marks(n - 1) \o <<",", "?">>

\* What the loop body writes to b for the value val, and appends to args.
expandText(val) ==
    IF isSliceOrArray(val)
    THEN IF Len(val.items) = 0 THEN <<"N", "U", "L", "L">> ELSE marks(Len(val.items))
    ELSE <<"?">>
expandArgs(val) == IF isSliceOrArray(val) THEN val.items ELSE <<val>>

\* The loop "for _, t := range toks" of bindNamedParams, from token k on.
RECURSIVE bindLoop(_, _, _, _, _, _, _)
bindLoop(q, toks, k, lut, last, b, args) ==
    IF k > Len(toks)
    THEN Returned(b \o SliceFrom(q, last), MakeSlice(args), NoErr)
    ELSE LET t == toks[k]
             got == lookup(lut, t.name)
         IN  IF ~got.ok THEN Returned(<<>>, NilSlice, ErrMissingValue)
             ELSE bindLoop(q, toks, k + 1, lut, t.end,
                           b \o Slice(q, last, t.start) \o expandText(got.val),
                           args \o expandArgs(got.val))

bindNamedParams(q, p) ==
    IF p.kind = "invalid" THEN Returned(<<>>, NilSlice, ErrNilParams)
    ELSE LET found == findNamedParams(q) IN
         IF found.err # NoErr THEN Returned(<<>>, NilSlice, found.err)
         ELSE IF Len(found.toks) = 0 THEN Returned(q, NilSlice, NoErr)
         ELSE LET lut == buildParamLookup(p) IN
              IF lut.panic THEN NotReturned("panic")
              ELSE IF lut.err # NoErr THEN Returned(<<>>, NilSlice, lut.err)
              ELSE bindLoop(q, found.toks, 1, lut.m, 0, <<>>, <<>>)

-----------------------------------------------------------------------------
(* Rebind *)

\* A Rebind that hands back its inputs next to the error; C4 must tell it
\* from Rebind.
Rebind_KeepsInputOnError(q, p, ps) ==
    IF Len(ps) = 1 /\ looksBindable(ps[1])
    THEN LET bound == bindNamedParams(q, ps[1]) IN
         IF bound.status # "ok" THEN bound
         ELSE IF bound.err # NoErr THEN Returned(q, Variadic(ps), bound.err)
         ELSE LET rw == rewritePlaceholders(bound.text, p) IN
              IF rw.status # "ok" THEN NotReturned(rw.status)
              ELSE Returned(rw.text, bound.args, NoErr)
    ELSE LET rw == rewritePlaceholders(q, p) IN
         IF rw.status # "ok" THEN NotReturned(rw.status)
         ELSE Returned(rw.text, Variadic(ps), NoErr)

\* A Rebind that leaves the rewriter out when binding changed nothing; C7
\* must tell it from Rebind.
Rebind_NoRewriteWithoutTokens(q, p, ps) ==
    IF Len(ps) = 1 /\ looksBindable(ps[1])
    THEN LET bound == bindNamedParams(q, ps[1]) IN
         IF bound.status # "ok" THEN bound
         ELSE IF bound.err # NoErr THEN Returned(<<>>, NilSlice, bound.err)
         ELSE IF bound.args = NilSlice THEN Returned(bound.text, bound.args, NoErr)
         ELSE LET rw == rewritePlaceholders(bound.text, p) IN
              IF rw.status # "ok" THEN NotReturned(rw.status)
              ELSE Returned(rw.text, bound.args, NoErr)
    ELSE LET rw == rewritePlaceholders(q, p) IN
         IF rw.status # "ok" THEN NotReturned(rw.status)
         ELSE Returned(rw.text, Variadic(ps), NoErr)

Rebind(q, p, ps) ==
    IF Len(ps) = 1 /\ looksBindable(ps[1])
    THEN LET bound == bindNamedParams(q, ps[1]) IN
         IF bound.status # "ok" THEN bound
         ELSE IF bound.err # NoErr THEN Returned(<<>>, NilSlice, bound.err)
         ELSE LET rw == rewritePlaceholders(bound.text, p) IN
              IF rw.status # "ok" THEN NotReturned(rw.status)
              ELSE Returned(rw.text, bound.args, NoErr)
    ELSE LET rw == rewritePlaceholders(q, p) IN
         IF rw.status # "ok" THEN NotReturned(rw.status)
         ELSE Returned(rw.text, Variadic(ps), NoErr)

-----------------------------------------------------------------------------
(* The mapping engine (doc.go).  A column label is a Go string: a sequence  *)
(* of bytes, each a one-character string.                                   *)

\* A byte above 0x7F: the byte 0xC9, "É" in Latin-1
ByteC9 == "byte 0xC9"

\* toLowerAscii: 'A'..'Z' become 'a'..'z', every other byte is kept
toLowerAscii(s) ==
    [k \in 1..Len(s) |-> IF s[k] \in UpperLetters THEN LowerOf[s[k]] ELSE s[k]]

\* A normalizer that strips on the opening character alone
normalizeColAscii_OpeningOnly(s) ==
    IF Len(s) >= 2 /\ At(s, 0) \in {"\"", Backtick, "["}
    THEN toLowerAscii(Slice(s, 1, Len(s) - 1))
    ELSE toLowerAscii(s)

normalizeColAscii(s) ==
    LET l == Len(s)
        first == At(s, 0)
        last == At(s, l - 1)
        inner == Slice(s, 1, l - 1)
    IN  IF l >= 2
        THEN CASE first = "\"" -> toLowerAscii(IF last = "\"" THEN inner ELSE s)
               [] first = Backtick -> toLowerAscii(IF last = Backtick THEN inner ELSE s)
               [] first = "[" -> toLowerAscii(IF last = "]" THEN inner ELSE s)
               [] OTHER -> toLowerAscii(s)
        ELSE toLowerAscii(s)

\* The parts of a tag between commas: tag[start:i] at every i that is a comma
\* or the end of the tag
RECURSIVE tagParts(_, _, _)
tagParts(tag, start, i) ==
    IF i > Len(tag) THEN <<>>
    ELSE IF i = Len(tag) \/ At(tag, i) = ","
    THEN <<Slice(tag, start, i)>> \o tagParts(tag, i + 1, i + 1)
    ELSE tagParts(tag, start, i + 1)

Inline == <<"i", "n", "l", "i", "n", "e">>

\* parseTag: "-", "col", ",inline", "col,inline", "inline,col"
parseTag(tag) ==
    IF tag = <<"-">> THEN [name |-> <<>>, inline |-> FALSE, omit |-> TRUE]
    ELSE IF tag = <<>> THEN [name |-> <<>>, inline |-> FALSE, omit |-> FALSE]
    ELSE LET parts == tagParts(tag, 0, 0)
             named == { k \in 1..Len(parts) : parts[k] # Inline /\ parts[k] # <<>> }
         IN  [name |-> IF named = {} THEN <<>>
                       ELSE parts[CHOOSE k \in named : \A j \in named : k <= j],
              inline |-> \E k \in 1..Len(parts) : parts[k] = Inline,
              omit |-> FALSE]

(* reflect.Type: kind, name ("" for an unnamed type), element type of a     *)
(* pointer, fields of a struct, and whether the pointer to the type has a   *)
(* Scan method.  Two types are the same type when the descriptors are equal.*)
GoType(kind, name, elems, fields, scanner) ==
    [kind |-> kind, name |-> name, elems |-> elems, fields |-> fields, scanner |-> scanner]

Builtin(kind) == GoType(kind, "", <<>>, <<>>, FALSE)
NamedType(name, kind, scanner) == GoType(kind, name, <<>>, <<>>, scanner)
PointerTo(t) == GoType("ptr", "", <<t>>, <<>>, FALSE)
StructType(name, fields, scanner) == GoType("struct", name, <<>>, fields, scanner)
\* reflect.StructField: Name, PkgPath == "" (exported), Anonymous, Tag.Get("db"), Type
TypeField(name, exported, anonymous, tag, type) ==
    [name |-> name, exported |-> exported, anonymous |-> anonymous, tag |-> tag, type |-> type]

Elem(t) == t.elems[1]
IntKinds == {"int", "int8", "int16", "int32", "int64"}
\* The width in bits of an integer kind (int is 64 bits on the platforms of the tests)
BitsOf(kind) ==
    CASE kind = "int8" -> 8 [] kind = "int16" -> 16 [] kind = "int32" -> 32 [] OTHER -> 64

RECURSIVE derefPtr(_)
derefPtr(t) == IF t.kind = "ptr" THEN derefPtr(Elem(t)) ELSE t

isStruct(t) == derefPtr(t).kind = "struct"

implementsScanner(t) == t.scanner

isDirectlyScannable(t) ==
    LET b == derefPtr(t) IN b.kind \in IntKinds \cup {"string", "bool"}

RECURSIVE fieldTypeByPath(_, _)
fieldTypeByPath(root, fpath) ==
    IF fpath = <<>> THEN root
    ELSE fieldTypeByPath(derefPtr(root).fields[fpath[1] + 1].type, Tail(fpath))

\* fieldIndex.byName as the sequence of (name, path) pairs the walk writes
IndexHas(idx, name) == \E k \in 1..Len(idx) : idx[k].name = name
IndexPath(idx, name) == idx[CHOOSE k \in 1..Len(idx) : idx[k].name = name].path
\* An index in which the last field of a name replaces the earlier ones
IndexPut_LastWins(idx, name, path) ==
    Append(SelectSeq(idx, LAMBDA e : e.name # name), [name |-> name, path |-> path])
\* idx.byName[lc] = path unless lc was seen
IndexPut(idx, name, path) ==
    IF IndexHas(idx, name) THEN idx ELSE Append(idx, [name |-> name, path |-> path])

RECURSIVE walk(_, _, _, _, _)
\* walk(t, base, forceInline) from field i on, with the index built so far
walk(idx, t0, base, forceInline, i) ==
    LET t == derefPtr(t0) IN
    IF t.kind # "struct" \/ i >= Len(t.fields) THEN idx
    ELSE LET sf == t.fields[i + 1]
             tg == parseTag(sf.tag)
             path == Append(base, i)
             name == IF tg.name = <<>> THEN sf.name ELSE tg.name
         IN  IF ~sf.exported /\ ~sf.anonymous THEN walk(idx, t, base, forceInline, i + 1)
             ELSE IF tg.omit THEN walk(idx, t, base, forceInline, i + 1)
             ELSE IF /\ tg.inline \/ (sf.anonymous /\ (forceInline \/ sf.tag = <<>>))
                     /\ isStruct(sf.type)
             THEN walk(walk(idx, sf.type, path, tg.inline, 0), t, base, forceInline, i + 1)
             ELSE walk(IndexPut(idx, toLowerAscii(name), path), t, base, forceInline, i + 1)

buildStructIndex(rt) == walk(<<>>, rt, <<>>, FALSE, 0)

\* stepKind
stepDrop == "stepDrop"
stepDirect == "stepDirect"
stepIndirect == "stepIndirect"
stepWhole == "stepWhole"

NoType == Builtin("none")
\* step: kind, fpath, convTo, and post named by the assignment it makes
Step(kind, fpath, convTo, post) ==
    [kind |-> kind, fpath |-> fpath, convTo |-> convTo, post |-> post]
BytesType == Builtin("bytes")

RECURSIVE ptrCountOf(_)
ptrCountOf(t) == IF t.kind = "ptr" THEN 1 + ptrCountOf(Elem(t)) ELSE 0

\* pickIndirect: the temporary's type and the post-assignment, or ok = FALSE
pickIndirect(dt) ==
    LET base == derefPtr(dt) IN
    IF base = Builtin("string") /\ dt.kind # "ptr"
    THEN [ok |-> TRUE, convTo |-> BytesType, post |-> "SetString(string(src.Bytes()))"]
    ELSE IF dt = base /\ base.kind \in IntKinds
    THEN [ok |-> TRUE, convTo |-> Builtin("int64"), post |-> "dst.SetInt(src.Int())"]
    ELSE IF base.kind \in IntKinds
    THEN [ok |-> TRUE, convTo |-> Builtin("int64"), post |-> "val.SetInt(src.Int()); assignWithPointers"]
    ELSE IF base.kind = "string"
    THEN [ok |-> TRUE, convTo |-> Builtin("string"), post |-> "val.SetString(src.String()); assignWithPointers"]
    ELSE [ok |-> FALSE, convTo |-> NoType, post |-> ""]

makeFieldStep(rootType, fpath) ==
    LET ft == fieldTypeByPath(rootType, fpath)
        ind == pickIndirect(ft)
    IN  IF implementsScanner(ft) THEN Step(stepDirect, fpath, NoType, "")
        ELSE IF ind.ok THEN Step(stepIndirect, fpath, ind.convTo, ind.post)
        ELSE Step(stepDirect, fpath, NoType, "")

makeWholeStep(t) ==
    LET ind == pickIndirect(t)
    IN  IF ind.ok THEN Step(stepIndirect, <<>>, ind.convTo, ind.post)
        ELSE Step(stepDirect, <<>>, NoType, "")

\* The bytes 0x20..0x7E in order; the k-th is the byte 31 + k
Printable == <<
    " ", "!", "\"", "#", "$", "%", "&", "'", "(", ")", "*", "+", ",", "-", ".", "/",
    "0", "1", "2", "3", "4", "5", "6", "7", "8", "9", ":", ";", "<", "=", ">", "?",
    "@", "A", "B", "C", "D", "E", "F", "G", "H", "I", "J", "K", "L", "M", "N", "O",
    "P", "Q", "R", "S", "T", "U", "V", "W", "X", "Y", "Z", "[", "\\", "]", "^", "_",
    Backtick, "a", "b", "c", "d", "e", "f", "g", "h", "i", "j", "k", "l", "m", "n", "o",
    "p", "q", "r", "s", "t", "u", "v", "w", "x", "y", "z", "{", "|", "}", "~" >>

\* The byte 0x00, which a label may hold and which scanWithMapper writes
\* after every label
ByteNul == "byte 0x00"

ByteOf(c) ==
    IF c = ByteC9 THEN 201
    ELSE IF c = ByteNul THEN 0
    ELSE 31 + CHOOSE k \in 1..Len(Printable) : Printable[k] = c

\* fnv.New64a keeps a uint64; the model keeps its low HashBits bits, which
\* depend only on the low bits of the offset basis 0xcbf29ce484222325 and of
\* the prime 0x100000001b3.
HashBits == 16
HashMod == 65536
FnvOffset == 8997
FnvPrime == 435

RECURSIVE xorFrom(_, _, _)
\* The bits i and above of a ^ b
xorFrom(a, b, i) ==
    IF i = HashBits THEN 0
    ELSE ((((a \div 2^i) + (b \div 2^i)) % 2) * 2^i) + xorFrom(a, b, i + 1)
Xor(a, b) == xorFrom(a, b, 0)

RECURSIVE fnvWrite(_, _)
\* hash.Write(b): for each byte, h ^= byte; h *= prime
fnvWrite(h, bytes) ==
    IF bytes = <<>> THEN h
    ELSE CHOOSE r \in { fnvWrite(h1, Tail(bytes)) :
                            h1 \in {(Xor(h, bytes[1]) * FnvPrime) % HashMod} } : TRUE

RECURSIVE hashCols(_, _)
\* The loop of scanWithMapper over the normalized labels: the label, then a 0 byte
hashCols(h, cols) ==
    IF cols = <<>> THEN h
    ELSE CHOOSE r \in { hashCols(h1, Tail(cols)) :
                            h1 \in {fnvWrite(h, [k \in 1..Len(cols[1]) |-> ByteOf(cols[1][k])] \o <<0>>)} } : TRUE

colHash(cols) == hashCols(FnvOffset, cols)

ErrZeroColumns == "xsql: query returned zero columns"
ErrScannerColumns == "xsql: scanning %s requires exactly 1 column; got %d"
ErrPrimitiveColumns == "xsql: cannot map %d columns into %s; use a struct"

planKey(rt, hash, ncols) == [rt |-> rt, hash |-> hash, ncols |-> ncols]
plan(rt, steps, isStructP, isScanP) ==
    [rt |-> rt, steps |-> steps, isStruct |-> isStructP, isScan |-> isScanP]
NoPlan == plan(NoType, <<>>, FALSE, FALSE)

\* Mapper: the two sync.Map caches, each a set of (key, value) entries.  A
\* cache holds pointers (*plan, *fieldIndex): ref is the address of the object
\* an entry points to, value what the object holds, and allocs counts the
\* objects stored so far, so that the address allocs + 1 is a new one.
NewMapper == [planCache |-> {}, structIndexCache |-> {}, allocs |-> 0]
CacheHas(cache, key) == \E e \in cache : e.key = key
CacheLoad(cache, key) == (CHOOSE e \in cache : e.key = key).value
CacheRef(cache, key) == (CHOOSE e \in cache : e.key = key).ref
\* A cache that keeps the stored entry alone
CacheStore_Evicting(cache, key, value, ref) == {[key |-> key, value |-> value, ref |-> ref]}
CacheStore(cache, key, value, ref) ==
    { e \in cache : e.key # key } \cup {[key |-> key, value |-> value, ref |-> ref]}

\* Mapper.structIndex: the cached index, or a new one, stored
structIndex(m, rt) ==
    IF CacheHas(m.structIndexCache, rt)
    THEN [fi |-> CacheLoad(m.structIndexCache, rt), m |-> m,
          ref |-> CacheRef(m.structIndexCache, rt)]
    ELSE LET fi == buildStructIndex(rt)
         IN  [fi |-> fi,
              m |-> [m EXCEPT !.structIndexCache = CacheStore(@, rt, fi, m.allocs + 1),
                              !.allocs = @ + 1],
              ref |-> m.allocs + 1]

\* The steps of a struct plan: the field's step for a column in the index,
\* stepDrop for any other
structSteps(rt, fi, cols) ==
    [i \in 1..Len(cols) |->
        IF IndexHas(fi, cols[i]) THEN makeFieldStep(rt, IndexPath(fi, cols[i]))
        ELSE Step(stepDrop, <<>>, NoType, "")]

\* Mapper.getPlan: the plan or the error, and the Mapper afterwards
getPlan(m, rt, cols, hash) ==
    LET key == planKey(rt, hash, Len(cols))
        isStructP == isStruct(rt)
        isScanP == implementsScanner(rt)
        stored(m1, p) == [plan |-> p, err |-> NoErr,
                          m |-> [m1 EXCEPT !.planCache = CacheStore(@, key, p, m1.allocs + 1),
                                           !.allocs = @ + 1],
                          ref |-> m1.allocs + 1]
    IN  IF CacheHas(m.planCache, key)
        THEN [plan |-> CacheLoad(m.planCache, key), err |-> NoErr, m |-> m,
              ref |-> CacheRef(m.planCache, key)]
        ELSE IF isStructP
        THEN LET ix == structIndex(m, rt)
             IN  stored(ix.m, plan(rt, structSteps(rt, ix.fi, cols), isStructP, isScanP))
        ELSE IF isScanP
        THEN IF Len(cols) # 1 THEN [plan |-> NoPlan, err |-> ErrScannerColumns, m |-> m, ref |-> 0]
             ELSE stored(m, plan(rt, <<Step(stepWhole, <<>>, NoType, "")>>, isStructP, isScanP))
        ELSE IF Len(cols) # 1 THEN [plan |-> NoPlan, err |-> ErrPrimitiveColumns, m |-> m, ref |-> 0]
             ELSE stored(m, plan(rt, <<makeWholeStep(rt)>>, isStructP, isScanP))

(* Values.  A driver value is an int64 or NULL.  A Go value of the          *)
(* destination carries its type, its integer or its bytes, the fields of a  *)
(* struct or the pointee of a non-nil pointer (items), and the driver       *)
(* values its Scan method received (got).                                   *)
DriverInt(n) == [kind |-> "int64", int |-> n]
DriverNull == [kind |-> "nil", int |-> 0]

Value(t, n, str, items, got) ==
    [type |-> t, int |-> n, str |-> str, items |-> items, got |-> got]

RECURSIVE Zero(_)
\* reflect.New(t).Elem(): the zero value of t
Zero(t) ==
    Value(t, 0, <<>>,
          IF t.kind = "struct" THEN [k \in 1..Len(t.fields) |-> Zero(t.fields[k].type)] ELSE <<>>,
          <<>>)

\* reflect.New(t) stored in a pointer of type pt
PointerAt(pt, v) == Value(pt, 0, <<>>, <<v>>, <<>>)

\* strconv.FormatInt(n, 10)
FormatInt(n) == IF n < 0 THEN <<"-">> \o Itoa(0 - n) ELSE Itoa(n)

\* Value.SetInt on a destination of w bits: the low w bits of x, as a signed
\* integer.  The values of the model lie within 32 bits.
SetInt(x, w) == IF w >= 32 THEN x ELSE ((x + 2^(w - 1)) % 2^w) - 2^(w - 1)

ErrConvertNull == "sql: Scan error: converting NULL to %s is unsupported"
ErrUnsupportedScan == "sql: Scan error: unsupported Scan, storing driver.Value type %T into type %s"

Converted(v, err) == [value |-> v, err |-> err]

RECURSIVE convertAssign(_, _)
\* database/sql's convertAssign into a pointer to the value d
convertAssign(d, src) ==
    LET t == d.type IN
    IF t.scanner THEN Converted([d EXCEPT !.got = Append(@, src)], NoErr)
    ELSE IF t.kind = "bytes"
    THEN Converted([d EXCEPT !.str = IF src.kind = "nil" THEN <<>> ELSE FormatInt(src.int)], NoErr)
    ELSE IF src.kind = "nil" /\ t.kind = "ptr" THEN Converted(Zero(t), NoErr)
    ELSE IF src.kind = "nil" THEN Converted(d, ErrConvertNull)
    ELSE IF t.kind = "string" THEN Converted([d EXCEPT !.str = FormatInt(src.int)], NoErr)
    ELSE IF t.kind \in IntKinds THEN Converted([d EXCEPT !.int = SetInt(src.int, BitsOf(t.kind))], NoErr)
    ELSE IF t.kind = "ptr"
    THEN LET c == convertAssign(Zero(Elem(t)), src)
         IN  Converted(PointerAt(t, c.value), c.err)
    ELSE Converted(d, ErrUnsupportedScan)

RECURSIVE pointerChain(_, _)
\* assignWithPointers: val behind the pointer layers of dt
pointerChain(dt, val) ==
    IF dt.kind = "ptr" THEN PointerAt(dt, pointerChain(Elem(dt), val)) ELSE [val EXCEPT !.type = dt]

\* The post-assignment of an indirect step from the temporary tmp into dst
post(st, dst, tmp) ==
    LET dt == dst.type
        under == derefPtr(dt)
    IN  CASE st.post = "SetString(string(src.Bytes()))" -> [dst EXCEPT !.str = tmp.str]
          [] st.post = "dst.SetInt(src.Int())" -> [dst EXCEPT !.int = SetInt(tmp.int, BitsOf(dt.kind))]
          [] st.post = "val.SetInt(src.Int()); assignWithPointers" ->
                pointerChain(dt, [Zero(under) EXCEPT !.int = SetInt(tmp.int, BitsOf(under.kind))])
          [] st.post = "val.SetString(src.String()); assignWithPointers" ->
                pointerChain(dt, [Zero(under) EXCEPT !.str = tmp.str])
          [] OTHER -> dst

RECURSIVE pathPanics(_, _, _)
\* fieldByPathAlloc on a new root of type t, reached read-only or not: whether
\* reflect panics, on Field of a value that is not a struct, or on Set,
\* Addr().Interface() or SetInt of a value obtained through an unexported field
pathPanics(t, fpath, ro) ==
    IF fpath = <<>> THEN ro
    ELSE LET s == IF t.kind = "ptr" THEN Elem(t) ELSE t IN
         IF t.kind = "ptr" /\ ro THEN TRUE
         ELSE IF s.kind # "struct" THEN TRUE
         ELSE LET f == s.fields[fpath[1] + 1] IN
              pathPanics(f.type, Tail(fpath), ~f.exported)

RECURSIVE updateAt(_, _, _)
\* The root with the field at fpath replaced by leaf, pointers on the way allocated
updateAt(v, fpath, leaf) ==
    IF fpath = <<>> THEN leaf
    ELSE IF v.type.kind = "ptr"
    THEN PointerAt(v.type,
            updateAt(IF v.items = <<>> THEN Zero(Elem(v.type)) ELSE v.items[1], fpath, leaf))
    ELSE [v EXCEPT !.items[fpath[1] + 1] = updateAt(@, Tail(fpath), leaf)]

RECURSIVE valueAt(_, _)
valueAt(v, fpath) ==
    IF fpath = <<>> THEN v
    ELSE IF v.type.kind = "ptr"
    THEN valueAt(IF v.items = <<>> THEN Zero(Elem(v.type)) ELSE v.items[1], fpath)
    ELSE valueAt(v.items[fpath[1] + 1], Tail(fpath))

\* The field fieldByPathAlloc returns: a nil pointer at the end is allocated
allocated(v) ==
    IF v.type.kind = "ptr" /\ v.items = <<>> THEN PointerAt(v.type, Zero(Elem(v.type))) ELSE v

Scanned(status, v, err) == [status |-> status, value |-> v, err |-> err]

RECURSIVE scanDirect(_, _, _, _)
\* rows.Scan over the destinations of the direct steps, from step i on
scanDirect(pl, row, root, i) ==
    IF i > Len(pl.steps) THEN Converted(root, NoErr)
    ELSE LET st == pl.steps[i]
             tmp == convertAssign(Zero(st.convTo), row[i])
             c == convertAssign(allocated(valueAt(root, st.fpath)), row[i])
         IN  IF st.kind = stepIndirect
             THEN IF tmp.err # NoErr THEN Converted(root, tmp.err)
                  ELSE scanDirect(pl, row, root, i + 1)
             ELSE IF st.kind \in {stepDirect, stepWhole}
             THEN IF c.err # NoErr THEN Converted(root, c.err)
                  ELSE scanDirect(pl, row, updateAt(root, st.fpath, c.value), i + 1)
             ELSE scanDirect(pl, row, root, i + 1)

RECURSIVE cleanup(_, _, _, _)
\* The finals of the indirect steps, in order
cleanup(pl, row, root, i) ==
    IF i > Len(pl.steps) THEN root
    ELSE LET st == pl.steps[i]
             tmp == convertAssign(Zero(st.convTo), row[i]).value
         IN  IF st.kind = stepIndirect
             THEN cleanup(pl, row,
                     updateAt(root, st.fpath, post(st, allocated(valueAt(root, st.fpath)), tmp)),
                     i + 1)
             ELSE cleanup(pl, row, root, i + 1)

\* destPtrs, rows.Scan and cleanup on a new destination of type rt
scanRow(pl, rt, row) ==
    LET zero == Zero(rt)
        panics(kind) == \E i \in 1..Len(pl.steps) :
                            pl.steps[i].kind = kind /\ pathPanics(rt, pl.steps[i].fpath, FALSE)
        s == scanDirect(pl, row, zero, 1)
    IN  IF pl.isStruct /\ panics(stepDirect) THEN Scanned("panic", zero, NoErr)
        ELSE IF s.err # NoErr THEN Scanned("ok", zero, s.err)
        ELSE IF pl.isStruct /\ panics(stepIndirect) THEN Scanned("panic", zero, NoErr)
        ELSE Scanned("ok", cleanup(pl, row, s.value, 1), NoErr)

\* scanWithMapper after getPlan returned g
scanPlanned(g, rt, row) ==
    IF g.err # NoErr THEN [res |-> Scanned("ok", Zero(rt), g.err), m |-> g.m]
    ELSE [res |-> scanRow(g.plan, rt, row), m |-> g.m]

\* The labels as scanWithMapper normalizes them
normalized(cols) == [i \in 1..Len(cols) |-> normalizeColAscii(cols[i])]

\* A scanWithMapper without the test for zero columns
scanWithMapper_NoZeroColumnsTest(m, rt, cols, row) ==
    scanPlanned(getPlan(m, rt, normalized(cols), colHash(normalized(cols))), rt, row)

\* scanWithMapper[T](m, rows) on the current row of a cursor with labels cols:
\* the result and the Mapper afterwards
scanWithMapper(m, rt, cols, row) ==
    IF Len(cols) = 0 THEN [res |-> Scanned("ok", Zero(rt), ErrZeroColumns), m |-> m]
    ELSE scanPlanned(getPlan(m, rt, normalized(cols), colHash(normalized(cols))), rt, row)

-----------------------------------------------------------------------------
(* The cursor (database/sql's *sql.Rows over a driver's rows) and Get.      *)
(* The driver yields the rows of data in order; its failAt-th call of Next  *)
(* fails (0: none does); its Close fails when closeErr; QueryContext fails  *)
(* when queryErr.  nexts counts the calls of the driver's Next, closes     *)
(* those of the driver's Close.                                             *)
Cursor(cols, data, failAt, closeErr, queryErr) ==
    [cols |-> cols, data |-> data, failAt |-> failAt, closeErr |-> closeErr,
     queryErr |-> queryErr, nexts |-> 0, closed |-> FALSE, lasterr |-> NoErr, closes |-> 0]
NoCursor == Cursor(<<>>, <<>>, 0, FALSE, FALSE)

ErrNoRows == "sql: no rows in result set"
ErrQuery == "boom"
ErrNext == "driver next error"
ErrClose == "driver close error"

\* rows.Next(): a failing or exhausted driver closes the rows; the error of
\* that Close is dropped, and io.EOF is not an error of rows.Err()
rowsNext(c) ==
    IF c.closed THEN [ok |-> FALSE, c |-> c]
    ELSE IF c.failAt = c.nexts + 1
    THEN [ok |-> FALSE, c |-> [c EXCEPT !.nexts = @ + 1, !.closed = TRUE, !.lasterr = ErrNext,
                                        !.closes = @ + 1]]
    ELSE IF c.nexts >= Len(c.data)
    THEN [ok |-> FALSE, c |-> [c EXCEPT !.nexts = @ + 1, !.closed = TRUE, !.closes = @ + 1]]
    ELSE [ok |-> TRUE, c |-> [c EXCEPT !.nexts = @ + 1]]

rowsErr(c) == c.lasterr

\* rows.Close(): nil on rows already closed
rowsClose(c) ==
    IF c.closed THEN [err |-> NoErr, c |-> c]
    ELSE [err |-> IF c.closeErr THEN ErrClose ELSE NoErr,
          c |-> [c EXCEPT !.closed = TRUE, !.closes = @ + 1]]

\* A deferred Close whose error replaces the error of the call
deferredClose_Overrides(res, m, c) ==
    [res |-> [res EXCEPT !.err = IF rowsClose(c).err # NoErr THEN rowsClose(c).err ELSE @],
     m |-> m, c |-> rowsClose(c).c]
\* The deferred Close of Get and of Query: its error is returned when there is
\* no other
deferredClose(res, m, c) ==
    [res |-> [res EXCEPT !.err = IF rowsClose(c).err # NoErr /\ @ = NoErr /\ res.status = "ok"
                                  THEN rowsClose(c).err ELSE @],
     m |-> m, c |-> rowsClose(c).c]

\* Get after scanWithMapper returned s
getScanned(s, c) == deferredClose(s.res, s.m, c)

\* A Get that answers ErrNoRows without asking rows.Err()
getFirst_NoRowsErr(m, rt, n) ==
    IF ~n.ok THEN deferredClose(Scanned("ok", Zero(rt), ErrNoRows), m, n.c)
    ELSE getScanned(scanWithMapper(m, rt, n.c.cols, n.c.data[n.c.nexts]), n.c)

\* Get after rows.Next() returned n
getFirst(m, rt, n) ==
    IF ~n.ok
    THEN deferredClose(Scanned("ok", Zero(rt),
                               IF rowsErr(n.c) # NoErr THEN rowsErr(n.c) ELSE ErrNoRows), m, n.c)
    ELSE getScanned(scanWithMapper(m, rt, n.c.cols, n.c.data[n.c.nexts]), n.c)

\* Get[T](ctx, q, query, args...): out, err, the Mapper and the cursor afterwards
Get(m, rt, c) ==
    IF c.queryErr THEN [res |-> Scanned("ok", Zero(rt), ErrQuery), m |-> m, c |-> c]
    ELSE getFirst(m, rt, rowsNext(c))

\* Query's results: out, err, and whether the call returned or panicked
Queried(status, out, err) == [status |-> status, out |-> out, err |-> err]

RECURSIVE queryLoop(_, _, _, _)
RECURSIVE queryNext(_, _, _, _)
RECURSIVE queryScanned(_, _, _, _)
\* for rows.Next() { ... }, with out so far
queryLoop(m, rt, c, out) == queryNext(m, rt, rowsNext(c), out)

\* Query after rows.Next() returned n: a row to scan, or the end of the loop
\* and rows.Err()
queryNext(m, rt, n, out) ==
    IF ~n.ok
    THEN IF rowsErr(n.c) # NoErr
         THEN deferredClose(Queried("ok", NilSlice, rowsErr(n.c)), m, n.c)
         ELSE deferredClose(Queried("ok", out, NoErr), m, n.c)
    ELSE queryScanned(scanWithMapper(m, rt, n.c.cols, n.c.data[n.c.nexts]), rt, n.c, out)

\* Query after scanWithMapper returned s: return nil, scanErr, or append
queryScanned(s, rt, c, out) ==
    IF s.res.status # "ok" THEN deferredClose(Queried(s.res.status, out, NoErr), s.m, c)
    ELSE IF s.res.err # NoErr THEN deferredClose(Queried("ok", NilSlice, s.res.err), s.m, c)
    ELSE queryLoop(s.m, rt, c, MakeSlice(out.items \o <<s.res.value>>))

\* Query[T](ctx, q, query, args...): out, err, the Mapper and the cursor afterwards
Query(m, rt, c) ==
    IF c.queryErr THEN [res |-> Queried("ok", NilSlice, ErrQuery), m |-> m, c |-> c]
    ELSE queryLoop(m, rt, c, NilSlice)

-----------------------------------------------------------------------------
(* Inputs *)

\* The characters every short text is built from: one opener of each kind of
\* skip region, the two characters the scanners replace or extract at, and a
\* letter.
Alphabet == {"'", "-", "/", "*", "$", "?", ":", "a"}

\* Smaller alphabets, one per kind of skip region and one for named tokens,
\* for longer texts.
FocusAlphabets ==
    { {"'", "?", "a"}, {"\"", "?", "a"}, {Backtick, "?", "a"}, {"$", "?", "a"},
      {"/", "*", "?"}, {"-", "\n", "?"}, {":", "a", "B"} }

\* The texts of at most n characters over the alphabet A
RECURSIVE Texts(_, _)
Texts(A, n) ==
    IF n = 0 THEN {<<>>}
    ELSE LET shorter == Texts(A, n - 1)
         IN  shorter \cup { t \o <<c>> : t \in { u \in shorter : Len(u) = n - 1 }, c \in A }

\* named_test.go TestRebind_RepeatedNames_Numbering
QRepeated ==
    <<"W", "H", "E", "R", "E", " ", "a", "=", ":", "x", " ", "O", "R", " ", "b", "=", ":", "x",
      " ", "O", "R", " ", "c", " ", "I", "N", " ", "(", ":", "a", "r", "r", ")", " ", "O", "R",
      " ", "d", "=", ":", "x">>

\* named_test.go TestRebind_PositionalPassthrough_Oracle
QOracle ==
    <<"a", "=", "?", " ", "A", "N", "D", " ", "b", " ", "I", "N", " ", "(", "?", ",", "?", ")",
      " ", "-", "-", " ", "?", " ", "i", "n", " ", "c", "o", "m", "m", "e", "n", "t">>

\* named_test.go TestRewrite_SkipsStringsComments_DollarQuoted
QSkips ==
    <<"S", "E", "L", "E", "C", "T", " ", "'", "?", "'", ",", " ", "$", "$", " ", "?", " ", "$",
      "$", ",", " ", "$", "z", "$", " ", "?", " ", "$", "z", "$", ",", " ", "-", "-", " ", "?",
      " ", "l", "i", "n", "e", "\n", "/", "*", " ", "?", " ", "b", "l", "o", "c", "k", " ",
      "*", "/", " ", "?", " ", "A", "S", " ", "b", "i", "n", "d", "\n">>

\* named_test.go TestRewrite_SkipsDoubleQuotedIdentifiers
QDoubleQuoted ==
    <<"S", "E", "L", "E", "C", "T", " ", "\"", "a", " ", "?", " ", "\"", "\"", " ", "b", "\"",
      ",", " ", "?">>

\* named_test.go TestRewrite_SkipsBacktickQuotedIdentifiers
QBacktickQuoted ==
    <<"S", "E", "L", "E", "C", "T", " ", Backtick, "c", " ", "?", " ", Backtick, Backtick, " ",
      "d", Backtick, ",", " ", "?">>

\* named_test.go TestRewrite_IgnoresPGCasts
QCasts ==
    <<"S", "E", "L", "E", "C", "T", " ", ":", "1", ":", ":", "i", "n", "t", ",", " ", ":", "a",
      "b", "c", ",", " ", "x", ":", ":", "t", "e", "x", "t", ",", " ", "?">>

\* named_test.go TestRebind_NamedMap_SQLServer_EmptySliceToNULL
QEmptyIn ==
    <<"W", "H", "E", "R", "E", " ", "s", "t", "a", "t", "u", "s", "=", ":", "x", " ", "A", "N",
      "D", " ", "i", "d", " ", "I", "N", " ", "(", ":", "a", "r", "r", ")">>

\* named_test.go TestBindNamedParams_NilSingleParam_Error
QSelectA ==
    <<"S", "E", "L", "E", "C", "T", " ", ":", "a">>

\* named_test.go TestFindNamedParams_ErrorsFromSkippers
QUnterminated ==
    <<"$", "t", "a", "g", "$", " ", "a", "b", "c">>

QMarkerTag ==
    <<"?", "$", "'", "$", "1", "$", "?", "'", "-", "-", "'">>

QMixed ==
    <<"a", "=", "?", " ", "A", "N", "D", " ", "b", "=", ":", "a">>

Corpus == {QRepeated, QOracle, QSkips, QDoubleQuoted, QBacktickQuoted, QCasts, QEmptyIn,
           QSelectA, QUnterminated, QMarkerTag, QMixed}

Queries ==
    Texts(Alphabet, MaxLen) \cup UNION { Texts(A, MaxFocusLen) : A \in FocusAlphabets } \cup Corpus

\* Argument values.  Keys and names are texts.
\* map[string]any{"a": 9}
MapOnlyA == MapOf("string", <<Entry(<<"a">>, GoInt(9))>>)
\* map[string]any{"a": 9, "b": []int{5, 6}}
MapAB == MapOf("string", <<Entry(<<"a">>, GoInt(9)), Entry(<<"b">>, SliceOf("int", <<GoInt(5), GoInt(6)>>))>>)
\* map[string]any{"a": []int{}, "b": [2]int{5, 6}}
MapEmptySeq ==
    MapOf("string", <<Entry(<<"a">>, SliceOf("int", <<>>)),
                     Entry(<<"b">>, ArrayOf("int", <<GoInt(5), GoInt(6)>>))>>)
\* map[string]any{"a": []byte("hi"), "b": [2]byte{1, 2}}
MapBytes ==
    MapOf("string", <<Entry(<<"a">>, SliceOf("uint8", <<GoInt(104), GoInt(105)>>)),
                     Entry(<<"b">>, ArrayOf("uint8", <<GoInt(1), GoInt(2)>>))>>)
\* map[string]any{"A": 1, "a": 2}
MapCase == MapOf("string", <<Entry(<<"A">>, GoInt(1)), Entry(<<"a">>, GoInt(2))>>)
\* map[string]any{"x": nil, "arr": []int{}}
MapXEmpty == MapOf("string", <<Entry(<<"x">>, Invalid), Entry(<<"a", "r", "r">>, SliceOf("int", <<>>))>>)
\* map[int]any{1: 2}
MapIntKeys == MapOf("int", <<Entry(<<"1">>, GoInt(2))>>)
\* struct { X int `db:"x"`; Arr []int `db:"arr"`; A int; b int; Bee []int `db:"B"` }
\* with the values {9, []int{1}, 8, 3, []int{5}}
StructP ==
    StructOf(<<StructField(<<"X">>, TRUE, FALSE, <<"x">>, GoInt(9)),
               StructField(<<"A", "r", "r">>, TRUE, FALSE, <<"a", "r", "r">>, SliceOf("int", <<GoInt(1)>>)),
               StructField(<<"A">>, TRUE, FALSE, <<>>, GoInt(8)),
               StructField(<<"b">>, FALSE, FALSE, <<>>, GoInt(3)),
               StructField(<<"B", "e", "e">>, TRUE, FALSE, <<"B">>, SliceOf("int", <<GoInt(5)>>))>>)
\* struct { Inner; X int `db:"a"` }{Inner{1}, 2} with Inner struct { A int }
StructDup ==
    StructOf(<<StructField(<<"I", "n", "n", "e", "r">>, TRUE, TRUE, <<>>,
                           StructOf(<<StructField(<<"A">>, TRUE, FALSE, <<>>, GoInt(1))>>)),
               StructField(<<"X">>, TRUE, FALSE, <<"a">>, GoInt(2))>>)

\* The single arguments that select the named path
NamedArgs == {MapOnlyA, MapAB, MapEmptySeq, MapBytes, MapCase, MapXEmpty,
              StructP, PtrTo(StructP), StructDup}
\* The argument lists that select positional passthrough
PositionalParams ==
    { <<>>, <<MapOnlyA, GoInt(2)>>, <<GoInt(7)>>, <<MapIntKeys>>, <<NilPtr("struct")>>, <<Invalid>> }
ParamChoices == PositionalParams \cup { <<v>> : v \in NamedArgs }

\* The orders in which MapRange may yield the entries of the map v:
\* Go leaves the iteration order of a map unspecified.
MapOrders(v) ==
    IF v.kind = "map"
    THEN { o \in [1..Len(v.items) -> 1..Len(v.items)] : \A a, b \in 1..Len(v.items) : a # b => o[a] # o[b] }
    ELSE { <<>> }
\* The value v as the code sees it when MapRange iterates in the order o
Iterated(v, o) ==
    IF v.kind = "map" THEN [v EXCEPT !.items = [k \in 1..Len(v.items) |-> v.items[o[k]]]] ELSE v

NoRet == [status |-> "none", text |-> <<>>, args |-> NilSlice, err |-> NoErr]

-----------------------------------------------------------------------------
(* The state machine: each behaviour is one call on one input *)

Init ==
    /\ query \in Queries
    /\ ph = PlaceholderQuestion
    /\ params = <<>>
    /\ pc = "ready"
    /\ ret = NoRet
    /\ ret2 = NoRet
    /\ mapper = NewMapper
    /\ dest = NoType
    /\ cursor = NoCursor
    /\ calls = 0
    /\ procs = <<>>

\* Rebind(query, p, ps...)
CallRebind ==
    /\ pc = "ready"
    /\ \E p \in Placeholder, ps \in ParamChoices :
         \E o \in (IF Len(ps) = 1 THEN MapOrders(ps[1]) ELSE { <<>> }) :
            /\ ph' = p
            /\ params' = ps
            /\ ret' = Rebind(query, p, IF Len(ps) = 1 THEN <<Iterated(ps[1], o)>> ELSE ps)
    /\ pc' = "Rebind"
    /\ UNCHANGED <<query, ret2>>
    /\ UNCHANGED mapperVars

\* bindNamedParams(query, v)
CallBindNamedParams ==
    /\ pc = "ready"
    /\ \E ps \in { c \in ParamChoices : Len(c) = 1 } :
         \E o \in MapOrders(ps[1]) :
            /\ params' = ps
            /\ ret' = bindNamedParams(query, Iterated(ps[1], o))
    /\ pc' = "bindNamedParams"
    /\ UNCHANGED <<query, ph, ret2>>
    /\ UNCHANGED mapperVars

\* rewritePlaceholders(query, p)
CallRewrite ==
    /\ pc = "ready"
    /\ \E p \in Placeholder :
         /\ ph' = p
         /\ ret' = rewritePlaceholders(query, p)
    /\ pc' = "rewritePlaceholders"
    /\ UNCHANGED <<query, params, ret2>>
    /\ UNCHANGED mapperVars

\* rewritePlaceholders(out, ph) on the text out that a first pass returned
RewriteAgain ==
    /\ pc = "rewritePlaceholders"
    /\ ret.status = "ok"
    /\ ret2' = rewritePlaceholders(ret.text, ph)
    /\ pc' = "second pass"
    /\ UNCHANGED <<query, ph, params, ret>>
    /\ UNCHANGED mapperVars

Next == CallRebind \/ CallBindNamedParams \/ CallRewrite \/ RewriteAgain

Spec == Init /\ [][Next]_vars

\* findNamedParams(query)
CallFindNamedParams ==
    /\ pc = "ready"
    /\ ret' = findNamedParams(query)
    /\ pc' = "findNamedParams"
    /\ UNCHANGED <<query, ph, params, ret2>>
    /\ UNCHANGED mapperVars

\* The Named Parameter Extractor on its own: one call on one query
ExtractorNext == CallFindNamedParams
ExtractorSpec == Init /\ [][ExtractorNext]_vars

-----------------------------------------------------------------------------
(* The Parameter Lookup Builder on its own: one call of buildParamLookup on *)
(* one argument, drawn from records of up to MaxFields fields and from      *)
(* mappings.                                                                *)

MaxFields == 3

\* type Inner struct { A int `db:"a"` }, the value Inner{A: 10}
InnerValue == StructOf(<<StructField(<<"A">>, TRUE, FALSE, <<"a">>, GoInt(10))>>)
\* type E struct { Z int `db:"z"` } and type inner struct { Z int `db:"z"` },
\* the values E{Z: 7} and inner{Z: 7}
EValue == StructOf(<<StructField(<<"Z">>, TRUE, FALSE, <<"z">>, GoInt(7))>>)

\* The fields a record may declare, with their values
FieldShapes ==
    { StructField(<<"A">>, TRUE, FALSE, <<>>, GoInt(1)),                    \* A int
      StructField(<<"X">>, TRUE, FALSE, <<"a">>, GoInt(2)),                 \* X int `db:"a"`
      StructField(<<"B">>, TRUE, FALSE, <<"B">>, GoInt(3)),                 \* B int `db:"B"`
      StructField(<<"C">>, TRUE, FALSE, <<"-">>, GoInt(4)),                 \* C int `db:"-"`
      StructField(<<"b">>, FALSE, FALSE, <<>>, GoInt(5)),                   \* b int
      StructField(<<"Y">>, TRUE, FALSE, <<"e">>, GoInt(6)),                 \* Y int `db:"e"`
      StructField(<<"I", "n", "n", "e", "r">>, TRUE, TRUE, <<>>, InnerValue),      \* Inner
      StructField(<<"I", "n", "n", "e", "r">>, TRUE, TRUE, <<"-">>, InnerValue),   \* Inner `db:"-"`
      StructField(<<"E">>, TRUE, TRUE, <<>>, PtrTo(EValue)),                \* *E, not nil
      StructField(<<"E">>, TRUE, TRUE, <<>>, NilPtr("struct")),             \* *E, nil
      StructField(<<"i", "n", "n", "e", "r">>, FALSE, TRUE, <<>>, PtrTo(EValue)),     \* *inner, not nil
      StructField(<<"i", "n", "n", "e", "r">>, FALSE, TRUE, <<>>, NilPtr("struct")) } \* *inner, nil

\* The records of at most n fields, no two fields of one name
RECURSIVE Records(_)
Records(n) ==
    IF n = 0 THEN { <<>> }
    ELSE LET shorter == Records(n - 1)
         IN  shorter \cup
             { fs \o <<f>> : fs \in { r \in shorter : Len(r) = n - 1 },
                             f \in FieldShapes }

DistinctNames(fs) == \A a, b \in 1..Len(fs) : a # b => fs[a].name # fs[b].name

\* The arguments handed to buildParamLookup
LookupArgs ==
    { StructOf(fs) : fs \in { r \in Records(MaxFields) : DistinctNames(r) } }
        \cup { PtrTo(StructOf(<<f>>)) : f \in FieldShapes }
        \cup { MapOnlyA, MapAB, MapCase, MapXEmpty, MapIntKeys, NilPtr("struct"),
               PtrTo(NilPtr("struct")), GoInt(7), Invalid }

\* What buildParamLookup returned: the lookup's map and the error, or no
\* result when it panicked.
Built(r) ==
    IF r.panic THEN [status |-> "panic", m |-> <<>>, err |-> NoErr]
    ELSE [status |-> "ok", m |-> r.m, err |-> r.err]

LookupInit ==
    /\ query = <<>>
    /\ ph = PlaceholderQuestion
    /\ params \in { <<v>> : v \in LookupArgs }
    /\ pc = "ready"
    /\ ret = NoRet
    /\ ret2 = NoRet
    /\ mapper = NewMapper
    /\ dest = NoType
    /\ cursor = NoCursor
    /\ calls = 0
    /\ procs = <<>>

\* buildParamLookup(params[0])
CallBuildParamLookup ==
    /\ pc = "ready"
    /\ \E o \in MapOrders(params[1]) :
          ret' = Built(buildParamLookup(Iterated(params[1], o)))
    /\ pc' = "buildParamLookup"
    /\ UNCHANGED <<query, ph, params, ret2>>
    /\ UNCHANGED mapperVars

LookupNext == CallBuildParamLookup

LookupSpec == LookupInit /\ [][LookupNext]_vars

-----------------------------------------------------------------------------
(* The mapping engine on its own: destination types, cursors, and the calls *)
(* of normalizeColAscii, getPlan, scanWithMapper and Get on one Mapper.     *)

\* Column labels are the texts of at most MaxLabelLen bytes over LabelAlphabet
MaxLabelLen == 3
\* A Mapper serves at most MaxCalls calls
MaxCalls == 2

TInt64 == Builtin("int64")
TInt32 == Builtin("int32")
TInt8 == Builtin("int8")
TString == Builtin("string")
\* type Tiny int8
Tiny == NamedType("Tiny", "int8", FALSE)
\* type AnyScanner string, with a func (s *AnyScanner) Scan(src any) error that
\* keeps the driver value it receives
AnyScanner == NamedType("AnyScanner", "string", TRUE)
\* type Money struct { Cents int64 }, with func (m *Money) Scan(src any) error
Money == StructType("Money",
            <<TypeField(<<"C", "e", "n", "t", "s">>, TRUE, FALSE, <<>>, TInt64)>>, TRUE)
\* type Inner struct { A int64 `db:"a"` }
InnerType == StructType("Inner", <<TypeField(<<"A">>, TRUE, FALSE, <<"a">>, TInt64)>>, FALSE)
\* type Row struct { X int8; S AnyScanner `db:"s"`; Inner }
Row == StructType("Row",
            <<TypeField(<<"X">>, TRUE, FALSE, <<>>, TInt8),
              TypeField(<<"S">>, TRUE, FALSE, <<"s">>, AnyScanner),
              TypeField(<<"I", "n", "n", "e", "r">>, TRUE, TRUE, <<>>, InnerType)>>, FALSE)
\* struct{}
Empty == StructType("", <<>>, FALSE)

ScalarTypes == {TInt64, TInt32, TInt8, TString, Tiny, PointerTo(TInt8), AnyScanner}
DestTypes == ScalarTypes \cup {Money, Row, PointerTo(Row), Empty}

LabelAlphabet == {"\"", Backtick, "[", "]", "X", "x", ByteC9}
RECURSIVE LabelsOfLen(_)
LabelsOfLen(n) ==
    IF n = 0 THEN {<<>>}
    ELSE { Append(l, c) : l \in LabelsOfLen(n - 1), c \in LabelAlphabet }
Labels == UNION { LabelsOfLen(n) : n \in 0..MaxLabelLen }

DriverValues == {DriverNull} \cup { DriverInt(v) : v \in {0 - 129, 0 - 128, 0 - 1, 0, 7, 127, 128, 300} }
Seven == <<DriverInt(7)>>
Eight == <<DriverInt(8)>>

\* One row under one label, for every label
LabelCursors == { Cursor(<<l>>, <<Seven>>, 0, FALSE, FALSE) : l \in Labels }
\* One row of one value under the label x, for every driver value
ValueCursors == { Cursor(<<(<<"x">>)>>, <<(<<v>>)>>, 0, FALSE, FALSE) : v \in DriverValues }
\* The labels "a\x00", "s" and the labels "a", "\x00s"
ColsNulFirst == <<(<<"a", ByteNul>>), <<"s">>>>
ColsNulSecond == <<(<<"a">>), <<ByteNul, "s">>>>
\* One row of sevens under zero, one and two labels
ColumnLists ==
    { <<>>, <<(<<"s">>)>>, <<(<<"c", "e", "n", "t", "s">>)>>, <<(<<"x">>), <<"s">>>>,
      <<(<<"X">>), <<"\"", "x", "\"">>>>, <<(<<"a">>), <<"q">>>>,
      ColsNulFirst, ColsNulSecond }
ShapeCursors ==
    { Cursor(cs, <<[k \in 1..Len(cs) |-> DriverInt(7)]>>, 0, FALSE, FALSE) : cs \in ColumnLists }
\* No row, one row and two rows under the label x, with every failure of the driver
FlowCursors ==
    { Cursor(<<(<<"x">>)>>, d, f, ce, qe) :
        d \in {<<>>, <<Seven>>, <<Seven, Eight>>}, f \in 0..2, ce \in BOOLEAN, qe \in BOOLEAN }

Cursors == ValueCursors \cup ShapeCursors \cup FlowCursors
\* What a Mapper that has served a call is asked next
LaterDests == {TInt8, AnyScanner, Money, Row}
LaterCursors ==
    { Cursor(cs, <<[k \in 1..Len(cs) |-> DriverInt(7)]>>, 0, FALSE, FALSE) :
        cs \in { <<>>, <<(<<"X">>)>>, <<(<<"x">>), <<"s">>>>, ColsNulFirst, ColsNulSecond } }

NormalizerInit ==
    /\ query = <<>>
    /\ ph = PlaceholderQuestion
    /\ params = <<>>
    /\ pc = "ready"
    /\ ret = NoRet
    /\ ret2 = NoRet
    /\ mapper = NewMapper
    /\ dest \in DestTypes
    /\ cursor \in LabelCursors
    /\ calls = 0
    /\ procs = <<>>

MapperInit ==
    /\ query = <<>>
    /\ ph = PlaceholderQuestion
    /\ params = <<>>
    /\ pc = "ready"
    /\ ret = NoRet
    /\ ret2 = NoRet
    /\ mapper = NewMapper
    /\ dest \in DestTypes
    /\ cursor \in Cursors
    /\ calls = 0
    /\ procs = <<>>

\* normalizeColAscii(cols[k])
CallNormalizeColAscii ==
    /\ pc = "ready"
    /\ \E k \in 1..Len(cursor.cols) :
          ret' = [label |-> cursor.cols[k], text |-> normalizeColAscii(cursor.cols[k])]
    /\ pc' = "normalizeColAscii"
    /\ UNCHANGED <<query, ph, params, ret2, mapper, dest, cursor, calls, procs>>

\* m.getPlan(rt, cols, colHash) as scanWithMapper calls it: on the normalized
\* labels and their hash
CallGetPlan ==
    /\ pc = "ready"
    /\ Len(cursor.cols) > 0
    /\ LET g == getPlan(mapper, dest, normalized(cursor.cols), colHash(normalized(cursor.cols)))
       IN  /\ ret' = [plan |-> g.plan, err |-> g.err, ref |-> g.ref]
           /\ mapper' = g.m
    /\ pc' = "getPlan"
    /\ calls' = calls + 1
    /\ UNCHANGED <<query, ph, params, ret2, dest, cursor, procs>>

\* rows.Next() is true, then scanWithMapper[T](m, rows)
CallScanWithMapper ==
    /\ pc = "ready"
    /\ ~cursor.queryErr
    /\ rowsNext(cursor).ok
    /\ LET c == rowsNext(cursor).c
           s == scanWithMapper(mapper, dest, c.cols, c.data[c.nexts])
       IN  /\ ret' = s.res
           /\ mapper' = s.m
           /\ cursor' = c
    /\ pc' = "scanWithMapper"
    /\ calls' = calls + 1
    /\ UNCHANGED <<query, ph, params, ret2, dest, procs>>

\* Get[T](ctx, q, query)
CallGet ==
    /\ pc = "ready"
    /\ LET g == Get(mapper, dest, cursor)
       IN  /\ ret' = g.res
           /\ mapper' = g.m
           /\ cursor' = g.c
    /\ pc' = "Get"
    /\ calls' = calls + 1
    /\ UNCHANGED <<query, ph, params, ret2, dest, procs>>

\* The caller comes back to the same Mapper with another destination type
\* and another cursor
NextCall ==
    /\ pc \in {"getPlan", "scanWithMapper", "Get"}
    /\ calls < MaxCalls
    /\ dest' \in LaterDests
    /\ cursor' \in LaterCursors
    /\ pc' = "ready"
    /\ ret' = NoRet
    /\ UNCHANGED <<query, ph, params, ret2, mapper, calls, procs>>

\* type inner struct { A int64; b int64 }
LowerInnerType == StructType("inner",
                <<TypeField(<<"A">>, TRUE, FALSE, <<>>, TInt64),
                  TypeField(<<"b">>, FALSE, FALSE, <<>>, TInt64)>>, FALSE)

\* type Mixed struct { X int8; *inner }, with inner of LowerInnerType: the
\* embedded pointer is an unexported field, which reflect does not let be set
Mixed == StructType("Mixed",
            <<TypeField(<<"X">>, TRUE, FALSE, <<>>, TInt8),
              TypeField(<<"i", "n", "n", "e", "r">>, FALSE, TRUE, <<>>, PointerTo(LowerInnerType))>>, FALSE)

\* One row under the labels x and a, with and without a NULL
PairCursors ==
    { Cursor(<<(<<"x">>), <<"a">>>>, <<r>>, 0, FALSE, FALSE) :
        r \in { <<DriverInt(7), DriverInt(8)>>, <<DriverInt(7), DriverNull>>,
                <<DriverNull, DriverInt(8)>> } }

\* Get and Query on their own: a destination type, and a cursor of at most
\* two rows under the label x, one of them NULL or none, with every failure
\* of the driver
Null == <<DriverNull>>
QueryDests == {TInt8, AnyScanner, Row, Mixed}
QueryCursors ==
    FlowCursors \cup
    { Cursor(<<(<<"x">>)>>, d, f, ce, FALSE) :
        d \in {<<Null>>, <<Seven, Null>>, <<Null, Seven>>}, f \in 0..2, ce \in BOOLEAN }
        \cup PairCursors

QueryInit ==
    /\ query = <<>>
    /\ ph = PlaceholderQuestion
    /\ params = <<>>
    /\ pc = "ready"
    /\ ret = NoRet
    /\ ret2 = NoRet
    /\ mapper = NewMapper
    /\ dest \in QueryDests
    /\ cursor \in QueryCursors
    /\ calls = 0
    /\ procs = <<>>

\* Query[T](ctx, q, query)
CallQuery ==
    /\ pc = "ready"
    /\ LET g == Query(mapper, dest, cursor)
       IN  /\ ret' = g.res
           /\ mapper' = g.m
           /\ cursor' = g.c
    /\ pc' = "Query"
    /\ calls' = calls + 1
    /\ UNCHANGED <<query, ph, params, ret2, dest, procs>>

QueryNext == CallQuery \/ CallGet
QuerySpec == QueryInit /\ [][QueryNext]_vars

NormalizerNext == CallNormalizeColAscii \/ CallGetPlan
NormalizerSpec == NormalizerInit /\ [][NormalizerNext]_vars

MapperNext == CallGetPlan \/ CallScanWithMapper \/ CallGet \/ NextCall
MapperSpec == MapperInit /\ [][MapperNext]_vars

-----------------------------------------------------------------------------
(* buildStructIndex on its own: the record types of at most MaxFields       *)
(* fields, each field one of FieldDecls.                                    *)

\* type Deep struct { Inner `db:"x"`; B int64 }
DeepType == StructType("Deep",
                <<TypeField(<<"I", "n", "n", "e", "r">>, TRUE, TRUE, <<"x">>, InnerType),
                  TypeField(<<"B">>, TRUE, FALSE, <<>>, TInt64)>>, FALSE)
\* The field declarations a record type is made of: plain, tagged, unexported,
\* omitted, embedded by value and by pointer, embedded and tagged, inline
FieldDecls ==
    { TypeField(<<"A">>, TRUE, FALSE, <<>>, TInt64),
      TypeField(<<"A">>, TRUE, FALSE, <<"b">>, TInt64),
      TypeField(<<"B">>, TRUE, FALSE, <<"A">>, TString),
      TypeField(<<"B">>, TRUE, FALSE, <<"-">>, TInt64),
      TypeField(<<"a">>, FALSE, FALSE, <<>>, TInt64),
      TypeField(<<"b">>, FALSE, FALSE, <<"a">>, TInt64),
      TypeField(<<"I", "n", "n", "e", "r">>, TRUE, TRUE, <<>>, InnerType),
      TypeField(<<"I", "n", "n", "e", "r">>, TRUE, TRUE, <<>>, PointerTo(InnerType)),
      TypeField(<<"I", "n", "n", "e", "r">>, TRUE, TRUE, <<"-">>, InnerType),
      TypeField(<<"I", "n", "n", "e", "r">>, TRUE, TRUE, <<"b">>, InnerType),
      TypeField(<<"i", "n", "n", "e", "r">>, FALSE, TRUE, <<>>, LowerInnerType),
      TypeField(<<"N">>, TRUE, FALSE, <<",", "i", "n", "l", "i", "n", "e">>, InnerType),
      TypeField(<<"D">>, TRUE, FALSE, <<"i", "n", "l", "i", "n", "e", ",", "d">>, DeepType) }

RECURSIVE FieldLists(_)
\* The lists of n declarations
FieldLists(n) ==
    IF n = 0 THEN {<<>>}
    ELSE { Append(fs, f) : fs \in FieldLists(n - 1), f \in FieldDecls }

\* A struct type declares no field name twice
RecordTypes ==
    { StructType("T", fs, FALSE) :
        fs \in { l \in UNION { FieldLists(n) : n \in 0..MaxFields } :
                     \A i, j \in 1..Len(l) : l[i].name = l[j].name => i = j } }

IndexInit ==
    /\ query = <<>>
    /\ ph = PlaceholderQuestion
    /\ params = <<>>
    /\ pc = "ready"
    /\ ret = NoRet
    /\ ret2 = NoRet
    /\ mapper = NewMapper
    /\ dest \in RecordTypes \cup { PointerTo(t) : t \in { r \in RecordTypes : Len(r.fields) <= 1 } }
    /\ cursor = NoCursor
    /\ calls = 0
    /\ procs = <<>>

\* buildStructIndex(rt)
CallBuildStructIndex ==
    /\ pc = "ready"
    /\ ret' = [fi |-> buildStructIndex(dest)]
    /\ pc' = "buildStructIndex"
    /\ UNCHANGED <<query, ph, params, ret2, mapper, dest, cursor, calls, procs>>

IndexNext == CallBuildStructIndex
IndexSpec == IndexInit /\ [][IndexNext]_vars

-----------------------------------------------------------------------------
(* scanWithMapper step by step: getPlan, plan.destPtrs, rows.Scan, then the *)
(* finals of cleanup one at a time.  procs[1] is the call in progress.      *)

\* The call: where it is, its plan, the destination rv.Elem(), the temporary
\* of every column, the first column whose final has not run, the columns
\* whose final ran, in the order they ran, whether rows.Scan returned nil,
\* and the error of the call
Frame(at, pl, root, tmps, next, ran, scanned, err) ==
    [at |-> at, plan |-> pl, root |-> root, tmps |-> tmps, next |-> next, ran |-> ran,
     scanned |-> scanned, err |-> err]

RECURSIVE destsAllocated(_, _, _)
\* The loop of destPtrs over the steps of a struct plan, from step i on:
\* fieldByPathAlloc for every direct step
destsAllocated(pl, root, i) ==
    IF i > Len(pl.steps) THEN root
    ELSE LET st == pl.steps[i] IN
         IF pl.isStruct /\ st.kind = stepDirect
         THEN destsAllocated(pl, updateAt(root, st.fpath, allocated(valueAt(root, st.fpath))), i + 1)
         ELSE destsAllocated(pl, root, i + 1)

RECURSIVE rawScan(_, _, _, _, _)
\* rows.Scan(dests...): convertAssign column after column, from column i on,
\* until one fails
rawScan(pl, row, root, tmps, i) ==
    IF i > Len(pl.steps) THEN [root |-> root, tmps |-> tmps, err |-> NoErr]
    ELSE LET st == pl.steps[i]
             tmp == convertAssign(Zero(st.convTo), row[i])
             c == convertAssign(allocated(valueAt(root, st.fpath)), row[i])
         IN  IF st.kind = stepIndirect
             THEN IF tmp.err # NoErr THEN [root |-> root, tmps |-> tmps, err |-> tmp.err]
                  ELSE rawScan(pl, row, root, [tmps EXCEPT ![i] = tmp.value], i + 1)
             ELSE IF st.kind \in {stepDirect, stepWhole}
             THEN IF c.err # NoErr THEN [root |-> root, tmps |-> tmps, err |-> c.err]
                  ELSE rawScan(pl, row, updateAt(root, st.fpath, c.value), tmps, i + 1)
             ELSE rawScan(pl, row, root, tmps, i + 1)

\* A scanWithMapper that runs cleanup whatever rows.Scan returned
afterScan_AlwaysCleanup(err) == "cleanup"
\* if err := rows.Scan(dests...); err != nil { return zero, err }
afterScan(err) == IF err # NoErr THEN "returned" ELSE "cleanup"

\* The finals left: the indirect steps from column next on
finalsLeft(f) ==
    { i \in f.next..Len(f.plan.steps) : f.plan.steps[i].kind = stepIndirect }

ScanInit ==
    /\ query = <<>>
    /\ ph = PlaceholderQuestion
    /\ params = <<>>
    /\ pc = "scan"
    /\ ret = NoRet
    /\ ret2 = NoRet
    /\ mapper = NewMapper
    /\ dest \in DestTypes \cup {Mixed}
    /\ cursor \in { rowsNext(c).c : c \in ValueCursors \cup ShapeCursors \cup PairCursors }
    /\ calls = 0
    /\ procs = <<Frame("getPlan", NoPlan, Zero(dest), <<>>, 1, <<>>, FALSE, NoErr)>>

\* rows.Columns(), the test for zero columns, the hash and m.getPlan
PlanStep ==
    /\ procs[1].at = "getPlan"
    /\ IF Len(cursor.cols) = 0
       THEN /\ procs' = <<[procs[1] EXCEPT !.at = "returned", !.err = ErrZeroColumns]>>
            /\ UNCHANGED mapper
       ELSE LET g == getPlan(mapper, dest, normalized(cursor.cols), colHash(normalized(cursor.cols)))
            IN  /\ mapper' = g.m
                /\ procs' = <<[procs[1] EXCEPT
                                 !.at = IF g.err # NoErr THEN "returned" ELSE "destPtrs",
                                 !.plan = g.plan,
                                 !.err = g.err]>>
    /\ UNCHANGED <<query, ph, params, pc, ret, ret2, dest, cursor, calls>>

\* rv := reflect.New(rt); dests, cleanup, err := pl.destPtrs(rv)
DestPtrsStep ==
    /\ procs[1].at = "destPtrs"
    /\ LET f == procs[1]
           pl == f.plan
       IN  procs' = <<
             IF pl.isStruct /\ \E i \in 1..Len(pl.steps) :
                    pl.steps[i].kind = stepDirect /\ pathPanics(dest, pl.steps[i].fpath, FALSE)
             THEN [f EXCEPT !.at = "panic"]
             ELSE [f EXCEPT !.at = "rows.Scan",
                            !.root = destsAllocated(pl, f.root, 1),
                            !.tmps = [i \in 1..Len(pl.steps) |-> Zero(pl.steps[i].convTo)]]>>
    /\ UNCHANGED <<query, ph, params, pc, ret, ret2, mapper, dest, cursor, calls>>

\* rows.Scan(dests...)
RowsScanStep ==
    /\ procs[1].at = "rows.Scan"
    /\ LET f == procs[1]
           s == rawScan(f.plan, cursor.data[cursor.nexts], f.root, f.tmps, 1)
       IN  procs' = <<[f EXCEPT !.at = afterScan(s.err), !.root = s.root, !.tmps = s.tmps,
                                !.scanned = s.err = NoErr, !.err = s.err]>>
    /\ UNCHANGED <<query, ph, params, pc, ret, ret2, mapper, dest, cursor, calls>>

\* One turn of the loop of cleanup: the next final
FinalStep ==
    /\ procs[1].at = "cleanup"
    /\ finalsLeft(procs[1]) # {}
    /\ LET f == procs[1]
           i == CHOOSE k \in finalsLeft(f) : \A j \in finalsLeft(f) : k <= j
           st == f.plan.steps[i]
       IN  procs' = <<
             IF f.plan.isStruct /\ pathPanics(dest, st.fpath, FALSE)
             THEN [f EXCEPT !.at = "panic"]
             ELSE [f EXCEPT !.root = updateAt(f.root, st.fpath,
                                        post(st, allocated(valueAt(f.root, st.fpath)), f.tmps[i])),
                            !.next = i + 1,
                            !.ran = Append(f.ran, i)]>>
    /\ UNCHANGED <<query, ph, params, pc, ret, ret2, mapper, dest, cursor, calls>>

\* return rv.Elem().Interface().(T), nil
ReturnStep ==
    /\ procs[1].at = "cleanup"
    /\ finalsLeft(procs[1]) = {}
    /\ procs' = <<[procs[1] EXCEPT !.at = "returned"]>>
    /\ UNCHANGED <<query, ph, params, pc, ret, ret2, mapper, dest, cursor, calls>>

ScanNext == PlanStep \/ DestPtrsStep \/ RowsScanStep \/ FinalStep \/ ReturnStep
ScanSpec == ScanInit /\ [][ScanNext]_vars

-----------------------------------------------------------------------------
(* buildStructIndex call by call: the calls of walk in progress are a stack *)
(* of frames, procs[1] is the goroutine.  A type may name itself: a field   *)
(* refers to a declared type by its name.                                   *)

\* A goroutine's stack holds at most MaxDepth frames of walk; the runtime ends
\* the program when it would grow further
MaxDepth == 4

\* The use of a declared type by its name
TypeRef(name) == GoType("ref", name, <<>>, <<>>, FALSE)

\* type Node struct { ID int64; *Node }
Node == StructType("Node",
            <<TypeField(<<"I", "D">>, TRUE, FALSE, <<>>, TInt64),
              TypeField(<<"N", "o", "d", "e">>, TRUE, TRUE, <<>>, PointerTo(TypeRef("Node")))>>, FALSE)
\* type List struct { V int64; Next *List `db:",inline"` }
List == StructType("List",
            <<TypeField(<<"V">>, TRUE, FALSE, <<>>, TInt64),
              TypeField(<<"N", "e", "x", "t">>, TRUE, FALSE,
                        <<",", "i", "n", "l", "i", "n", "e">>, PointerTo(TypeRef("List")))>>, FALSE)
\* type Ping struct { *Pong; P int64 } and type Pong struct { Q int64; *Ping }
Ping == StructType("Ping",
            <<TypeField(<<"P", "o", "n", "g">>, TRUE, TRUE, <<>>, PointerTo(TypeRef("Pong"))),
              TypeField(<<"P">>, TRUE, FALSE, <<>>, TInt64)>>, FALSE)
Pong == StructType("Pong",
            <<TypeField(<<"Q">>, TRUE, FALSE, <<>>, TInt64),
              TypeField(<<"P", "i", "n", "g">>, TRUE, TRUE, <<>>, PointerTo(TypeRef("Ping")))>>, FALSE)
\* type Tree struct { V int64; Left *Tree } : the pointer is a plain field
Tree == StructType("Tree",
            <<TypeField(<<"V">>, TRUE, FALSE, <<>>, TInt64),
              TypeField(<<"L", "e", "f", "t">>, TRUE, FALSE, <<>>, PointerTo(TypeRef("Tree")))>>, FALSE)

Declared(name) ==
    CASE name = "Node" -> Node
      [] name = "List" -> List
      [] name = "Ping" -> Ping
      [] name = "Pong" -> Pong
      [] name = "Tree" -> Tree

SelfReferential == {Node, List, Ping, Tree}

RECURSIVE recordOf(_)
\* derefPtr(t) where t may be the name of a declared type
recordOf(t) ==
    IF t.kind = "ptr" THEN recordOf(Elem(t))
    ELSE IF t.kind = "ref" THEN Declared(t.name)
    ELSE t

\* A call of walk(t, base, forceInline) that is at field i
WalkFrame(t, base, forceInline, i) ==
    [t |-> t, base |-> base, forceInline |-> forceInline, i |-> i]

\* The goroutine: where it is, the calls of walk in progress, idx.byName
Walker(at, stack, idx) == [at |-> at, stack |-> stack, idx |-> idx]

WalkInit ==
    /\ query = <<>>
    /\ ph = PlaceholderQuestion
    /\ params = <<>>
    /\ pc = "walk"
    /\ ret = NoRet
    /\ ret2 = NoRet
    /\ mapper = NewMapper
    /\ dest \in SelfReferential \cup {Row, PointerTo(Row), Empty, TInt8}
                \cup { r \in RecordTypes : Len(r.fields) <= 2 }
    /\ cursor = NoCursor
    /\ calls = 0
    /\ procs = <<Walker("walk", <<WalkFrame(dest, <<>>, FALSE, 0)>>, <<>>)>>

\* One turn of the loop of walk over the fields of t: the field is skipped,
\* or walked into, or registered under its name
WalkField ==
    /\ procs[1].at = "walk"
    /\ LET w == procs[1]
           d == Len(w.stack)
           top == w.stack[d]
           t == recordOf(top.t)
       IN  /\ t.kind = "struct"
           /\ top.i < Len(t.fields)
           /\ LET sf == t.fields[top.i + 1]
                  tg == parseTag(sf.tag)
                  path == Append(top.base, top.i)
                  name == IF tg.name = <<>> THEN sf.name ELSE tg.name
                  on == [w EXCEPT !.stack[d].i = @ + 1]
              IN  procs' = <<
                    IF ~sf.exported /\ ~sf.anonymous THEN on
                    ELSE IF tg.omit THEN on
                    ELSE IF /\ tg.inline \/ (sf.anonymous /\ (top.forceInline \/ sf.tag = <<>>))
                            /\ recordOf(sf.type).kind = "struct"
                    THEN IF d >= MaxDepth THEN [w EXCEPT !.at = "stack overflow"]
                         ELSE [on EXCEPT !.stack = Append(@, WalkFrame(sf.type, path, tg.inline, 0))]
                    ELSE [on EXCEPT !.idx = IndexPut(@, toLowerAscii(name), path)]>>
    /\ UNCHANGED <<query, ph, params, pc, ret, ret2, mapper, dest, cursor, calls>>

\* A call of walk returns: t is not a struct, or the loop is over
WalkReturn ==
    /\ procs[1].at = "walk"
    /\ LET w == procs[1]
           d == Len(w.stack)
           t == recordOf(w.stack[d].t)
       IN  /\ t.kind # "struct" \/ w.stack[d].i >= Len(t.fields)
           /\ procs' = <<[w EXCEPT !.stack = SubSeq(@, 1, d - 1),
                                   !.at = IF d = 1 THEN "returned" ELSE "walk"]>>
    /\ UNCHANGED <<query, ph, params, pc, ret, ret2, mapper, dest, cursor, calls>>

WalkNext == WalkField \/ WalkReturn
WalkSpec == WalkInit /\ [][WalkNext]_vars

-----------------------------------------------------------------------------
(* Concurrent callers of getPlan on one Mapper, all for the same            *)
(* destination type and the same labels.  Each Load and Store of a sync.Map *)
(* is one step; what a goroutine builds between them is its own.            *)

\* The number of goroutines
NumProcs == 2
Procs == 1..NumProcs

\* make([]step, n): n zero steps, and the kind of a zero step is stepDrop
zeroSteps(n) == [i \in 1..n |-> Step(stepDrop, <<>>, NoType, "")]

Proc(at, fi, p, built, err) ==
    [at |-> at, fi |-> fi, plan |-> p, built |-> built, err |-> err, ref |-> 0]

\* The key of every caller
theCols == normalized(cursor.cols)
theKey == planKey(dest, colHash(theCols), Len(theCols))

\* A getPlan that stores the plan as soon as it is allocated
readyToStore_BeforeSteps(pr, cols) == TRUE
\* m.planCache.Store(key, p) comes after the loop over the columns
readyToStore(pr, cols) == pr.built = Len(cols)

ConcurrentInit ==
    /\ query = <<>>
    /\ ph = PlaceholderQuestion
    /\ params = <<>>
    /\ pc = "concurrent"
    /\ ret = NoRet
    /\ ret2 = NoRet
    /\ mapper = NewMapper
    /\ dest \in DestTypes
    /\ cursor \in { c \in ShapeCursors : Len(c.cols) > 0 }
    /\ calls = 0
    /\ procs = [p \in Procs |-> Proc("getPlan", <<>>, NoPlan, 0, NoErr)]

\* if v, ok := m.planCache.Load(key); ok { return v.(*plan), nil }
LoadPlan(p) ==
    /\ procs[p].at = "getPlan"
    /\ procs' = [procs EXCEPT ![p] =
          IF CacheHas(mapper.planCache, theKey)
          THEN [@ EXCEPT !.at = "returned", !.plan = CacheLoad(mapper.planCache, theKey),
                         !.ref = CacheRef(mapper.planCache, theKey)]
          ELSE [@ EXCEPT !.at = IF isStruct(dest) THEN "structIndex" ELSE "scalar",
                         !.plan = plan(dest, <<>>, isStruct(dest), implementsScanner(dest))]]
    /\ UNCHANGED <<query, ph, params, pc, ret, ret2, mapper, dest, cursor, calls>>

\* if v, ok := m.structIndexCache.Load(rt); ok { return v.(*fieldIndex) }
\* fi := buildStructIndex(rt)
LoadIndex(p) ==
    /\ procs[p].at = "structIndex"
    /\ procs' = [procs EXCEPT ![p] =
          IF CacheHas(mapper.structIndexCache, dest)
          THEN [@ EXCEPT !.at = "steps", !.fi = CacheLoad(mapper.structIndexCache, dest),
                         !.plan.steps = zeroSteps(Len(theCols))]
          ELSE [@ EXCEPT !.at = "storeIndex", !.fi = buildStructIndex(dest)]]
    /\ UNCHANGED <<query, ph, params, pc, ret, ret2, mapper, dest, cursor, calls>>

\* m.structIndexCache.Store(rt, &fi); p.steps = make([]step, len(cols))
StoreIndex(p) ==
    /\ procs[p].at = "storeIndex"
    /\ mapper' = [mapper EXCEPT !.structIndexCache =
                                      CacheStore(@, dest, procs[p].fi, mapper.allocs + 1),
                                 !.allocs = @ + 1]
    /\ procs' = [procs EXCEPT ![p] = [@ EXCEPT !.at = "steps",
                                               !.plan.steps = zeroSteps(Len(theCols))]]
    /\ UNCHANGED <<query, ph, params, pc, ret, ret2, dest, cursor, calls>>

\* One turn of the loop over the columns: p.steps[i] = st
BuildStep(p) ==
    /\ procs[p].at = "steps"
    /\ procs[p].built < Len(theCols)
    /\ procs' = [procs EXCEPT ![p] =
          [@ EXCEPT !.built = @ + 1,
                    !.plan.steps[procs[p].built + 1] =
                        structSteps(dest, procs[p].fi, theCols)[procs[p].built + 1]]]
    /\ UNCHANGED <<query, ph, params, pc, ret, ret2, mapper, dest, cursor, calls>>

\* The branch of a destination that is not a struct: an error for any number
\* of columns but one, or the single step
BuildScalar(p) ==
    /\ procs[p].at = "scalar"
    /\ procs' = [procs EXCEPT ![p] =
          IF Len(theCols) # 1
          THEN [@ EXCEPT !.at = "returned", !.plan = NoPlan,
                         !.err = IF implementsScanner(dest) THEN ErrScannerColumns
                                 ELSE ErrPrimitiveColumns]
          ELSE [@ EXCEPT !.at = "steps", !.built = 1,
                         !.plan.steps = IF implementsScanner(dest)
                                        THEN <<Step(stepWhole, <<>>, NoType, "")>>
                                        ELSE <<makeWholeStep(dest)>>]]
    /\ UNCHANGED <<query, ph, params, pc, ret, ret2, mapper, dest, cursor, calls>>

\* m.planCache.Store(key, p); return p, nil
StorePlan(p) ==
    /\ procs[p].at = "steps"
    /\ readyToStore(procs[p], theCols)
    /\ mapper' = [mapper EXCEPT !.planCache =
                                      CacheStore(@, theKey, procs[p].plan, mapper.allocs + 1),
                                 !.allocs = @ + 1]
    /\ procs' = [procs EXCEPT ![p] = [@ EXCEPT !.at = "returned", !.ref = mapper.allocs + 1]]
    /\ UNCHANGED <<query, ph, params, pc, ret, ret2, dest, cursor, calls>>

ConcurrentNext ==
    \E p \in Procs :
        \/ LoadPlan(p)
        \/ LoadIndex(p)
        \/ StoreIndex(p)
        \/ BuildStep(p)
        \/ BuildScalar(p)
        \/ StorePlan(p)

ConcurrentSpec == ConcurrentInit /\ [][ConcurrentNext]_vars

\* Rounds of concurrent callers on one Mapper: when every caller has returned,
\* the callers come back with another destination type and other labels
RoundDests == {TInt8, Row}
RoundCursors ==
    { Cursor(cs, <<[k \in 1..Len(cs) |-> DriverInt(7)]>>, 0, FALSE, FALSE) :
        cs \in { <<(<<"X">>)>>, <<(<<"x">>), <<"s">>>>, ColsNulFirst } }

CacheInit ==
    /\ query = <<>>
    /\ ph = PlaceholderQuestion
    /\ params = <<>>
    /\ pc = "concurrent"
    /\ ret = NoRet
    /\ ret2 = NoRet
    /\ mapper = NewMapper
    /\ dest \in RoundDests
    /\ cursor \in RoundCursors
    /\ calls = 0
    /\ procs = [p \in Procs |-> Proc("getPlan", <<>>, NoPlan, 0, NoErr)]

NextRound ==
    /\ \A p \in Procs : procs[p].at = "returned"
    /\ calls + 1 < MaxCalls
    /\ calls' = calls + 1
    /\ dest' \in RoundDests
    /\ cursor' \in RoundCursors
    /\ procs' = [p \in Procs |-> Proc("getPlan", <<>>, NoPlan, 0, NoErr)]
    /\ UNCHANGED <<query, ph, params, pc, ret, ret2, mapper>>

CacheNext == ConcurrentNext \/ NextRound
CacheSpec == CacheInit /\ [][CacheNext]_vars

-----------------------------------------------------------------------------
(* What the specification says of a text, stated by position and not by a   *)
(* scanning loop: its skip regions, its bare "?" and the text a rewriting   *)
(* pass should produce.                                                     *)

Least(S) == CHOOSE x \in S : \A y \in S : x <= y

\* A quoted region opened at offset i by the quote c closes at the end of
\* the first unbroken run of c after i whose length is odd: the quotes of a
\* run pair up as escapes, and the one left over closes.  -1: never closed.
RunStart(q, i, e, c) ==
    Least({ b \in (i + 1)..e : \A k \in b..e : At(q, k) = c })
QuotedEnd(q, i, c) ==
    LET closes == { e \in (i + 1)..(Len(q) - 1) :
                      /\ At(q, e) = c
                      /\ (e = Len(q) - 1 \/ At(q, e + 1) # c)
                      /\ (e - RunStart(q, i, e, c) + 1) % 2 = 1 }
    IN  IF closes = {} THEN -1 ELSE Least(closes) + 1

\* A line comment opened at i runs through the next newline, or to the end.
LineCommentEnd(q, i) ==
    LET nl == { k \in (i + 2)..(Len(q) - 1) : At(q, k) = "\n" }
    IN  IF nl = {} THEN Len(q) ELSE Least(nl) + 1

\* A block comment opened at i runs through the first "*/" after "/*".
BlockCommentEnd(q, i) ==
    LET cl == { k \in (i + 2)..(Len(q) - 2) : At(q, k) = "*" /\ At(q, k + 1) = "/" }
    IN  IF cl = {} THEN -1 ELSE Least(cl) + 2

\* The offset of the "$" that ends the opening marker "$tag$" at i, the tag
\* being letters, digits and underscores; -1 when the "$" at i opens nothing.
IsTagLetter(c) == c = "_" \/ c \in LowerLetters \/ c \in UpperLetters \/ c \in Digits
DollarOpenEnd(q, i) ==
    LET ds == { j \in (i + 1)..(Len(q) - 1) : At(q, j) = "$" }
    IN  IF ds = {} THEN -1
        ELSE IF \A k \in (i + 1)..(Least(ds) - 1) : IsTagLetter(At(q, k)) THEN Least(ds)
        ELSE -1
\* A dollar-quoted block runs through the next occurrence of its marker.
DollarEnd(q, i) ==
    LET j == DollarOpenEnd(q, i)
        m == Slice(q, i, j + 1)
        at == { k \in (j + 1)..(Len(q) - Len(m)) : Slice(q, k, k + Len(m)) = m }
    IN  IF at = {} THEN -1 ELSE Least(at) + Len(m)

\* The skip region that opens at offset i, an offset outside every region:
\* opens tells whether one does, end is the offset after it (-1: unclosed).
RegionAt(q, i) ==
    LET c == At(q, i)
        next == IF i + 1 < Len(q) THEN At(q, i + 1) ELSE ""
    IN  CASE c \in {"'", "\"", Backtick} -> [opens |-> TRUE, end |-> QuotedEnd(q, i, c)]
          [] c = "-" /\ next = "-" -> [opens |-> TRUE, end |-> LineCommentEnd(q, i)]
          [] c = "/" /\ next = "*" -> [opens |-> TRUE, end |-> BlockCommentEnd(q, i)]
          [] c = "$" /\ DollarOpenEnd(q, i) # -1 -> [opens |-> TRUE, end |-> DollarEnd(q, i)]
          [] OTHER -> [opens |-> FALSE, end |-> i]

\* The offsets of the text from i on that lie outside every skip region, and
\* whether a region is left unclosed.
RECURSIVE Outside(_, _)
Outside(q, i) ==
    IF i >= Len(q) THEN [at |-> {}, unclosed |-> FALSE]
    ELSE LET r == RegionAt(q, i) IN
         IF ~r.opens
         THEN LET rest == Outside(q, i + 1) IN [rest EXCEPT !.at = @ \cup {i}]
         ELSE IF r.end = -1 THEN [at |-> {}, unclosed |-> TRUE]
         ELSE Outside(q, r.end)

Unterminated(q) == Outside(q, 0).unclosed
\* The offsets of the bare "?" of the text
BareMarks(q) == { i \in Outside(q, 0).at : At(q, i) = "?" }

RECURSIVE Concat(_)
Concat(ss) == IF ss = <<>> THEN <<>> ELSE Head(ss) \o Concat(Tail(ss))

\* The dialect's marker for the k-th parameter: ?, $k, @pk, :k
DialectMarker(p, k) ==
    IF p = PlaceholderDollar THEN <<"$">> \o Itoa(k)
    ELSE IF p = PlaceholderAtP THEN <<"@", "p">> \o Itoa(k)
    ELSE IF p = PlaceholderColonNum THEN <<":">> \o Itoa(k)
    ELSE <<"?">>

\* The text with its k-th bare "?" replaced by the marker for k and every
\* other character kept.
Renumbered(q, p) ==
    LET bare == BareMarks(q)
    IN  Concat([k \in 1..Len(q) |->
                  IF (k - 1) \in bare
                  THEN DialectMarker(p, Cardinality({ b \in bare : b <= k - 1 }))
                  ELSE <<q[k]>>])

\* The caller's arguments select the named path: exactly one argument, a
\* record or a text-keyed mapping, possibly behind non-nil pointers.
RECURSIVE IsNamedShape(_)
IsNamedShape(v) ==
    CASE v.kind = "ptr" -> ~v.isNil /\ IsNamedShape(v.items[1])
      [] v.kind = "map" -> v.elem = "string"
      [] OTHER -> v.kind = "struct"
NamedPath(ps) == Len(ps) = 1 /\ IsNamedShape(ps[1])

-----------------------------------------------------------------------------
(* The claims *)

\* C1: for every text and every dialect, the Placeholder Rewriter returns the
\* text with its k-th bare "?" outside skip regions replaced by the dialect's
\* marker for k and every other character copied unchanged (the text itself
\* for the question dialect).
C1_RewriterRenumbersBareMarks ==
    pc = "rewritePlaceholders" =>
        /\ ret.status = "ok"
        /\ ret.text = Renumbered(query, ph)

\* What holds of C1: the same on every text all of whose skip regions close.
C1_OnClosedText ==
    (pc = "rewritePlaceholders" /\ ~Unterminated(query)) =>
        /\ ret.status = "ok"
        /\ ret.text = Renumbered(query, ph)

\* On a text with an unclosed region, and a dialect other than the question
\* dialect, the rewriter does not return.
C1_OnUnclosedText ==
    (pc = "rewritePlaceholders" /\ Unterminated(query) /\ ph # PlaceholderQuestion) =>
        ret.status \in {"panic", "hang"}

\* C2: a second rewriting pass, same dialect, over the text a first pass
\* returned ends and returns that text unchanged.
C2_SecondPassChangesNothing ==
    pc = "second pass" =>
        /\ ret2.status = "ok"
        /\ ret2.text = ret.text

\* C3: Rebind, on either path and with any dialect, returns an error and no
\* text for a query with an unclosed quote, comment or dollar-quoted block.
C3_UnterminatedFails ==
    (pc = "Rebind" /\ Unterminated(query)) =>
        /\ ret.status = "ok"
        /\ ret.err # NoErr
        /\ ret.text = <<>>

\* What holds of C3: the same on the named path alone.
C3_OnNamedPath ==
    (pc = "Rebind" /\ Unterminated(query) /\ NamedPath(params)) =>
        /\ ret.status = "ok"
        /\ ret.err # NoErr
        /\ ret.text = <<>>

\* C4: whenever Rebind returns an error, the text it returns is empty and
\* the argument list it returns is nil.
C4_FailedRebindReturnsNothing ==
    (pc = "Rebind" /\ ret.status = "ok" /\ ret.err # NoErr) =>
        /\ ret.text = <<>>
        /\ ret.args = NilSlice

\* C4's case: Rebind failed on a missing value at a later token, after the
\* first token of the query had been resolved.
C4_Witness ==
    /\ pc = "Rebind"
    /\ ret.status = "ok"
    /\ ret.err = ErrMissingValue
    /\ Len(findNamedParams(query).toks) >= 2
    /\ params[1].kind = "map"
    /\ \E e \in 1..Len(params[1].items) :
          ToLower(params[1].items[e].key) = ToLower(findNamedParams(query).toks[1].name)


-----------------------------------------------------------------------------
(* What the specification says of named binding: the values a caller's      *)
(* argument offers under each lowercased name, and what a value expands to. *)

\* The pairs <<lowercased name, value>> the argument v offers: the entries of
\* a mapping; the exported fields of a record under their tag or declared
\* name, the fields of its embedded records among them.
RECURSIVE NamedValues(_)
NamedValues(v) ==
    CASE v.kind = "ptr" -> IF v.isNil THEN {} ELSE NamedValues(v.items[1])
      [] v.kind = "map" ->
            { <<ToLower(v.items[k].key), v.items[k].val>> : k \in 1..Len(v.items) }
      [] v.kind = "struct" ->
            UNION { LET f == v.items[k] IN
                    IF f.anonymous /\ derefChain(f.val).kind \in {"struct", "ptr"}
                    THEN NamedValues(f.val)
                    ELSE IF ~f.exported \/ f.tag = <<"-">> THEN {}
                    ELSE { <<ToLower(IF f.tag = <<>> THEN f.name ELSE f.tag), f.val>> }
                  : k \in 1..Len(v.items) }
      [] OTHER -> {}

NamesOf(v) == { nv[1] : nv \in NamedValues(v) }
TokenNames(toks) == { ToLower(toks[k].name) : k \in 1..Len(toks) }

\* The ways to give every name of the tokens one of the values v offers for it
Bindings(v, toks) ==
    { f \in [TokenNames(toks) -> { nv[2] : nv \in NamedValues(v) }] :
        \A n \in TokenNames(toks) : <<n, f[n]>> \in NamedValues(v) }

\* An ordered sequence: a slice or an array, a slice of bytes excepted.
IsSequence(val) ==
    /\ val.kind \in {"slice", "array"}
    /\ ~(val.kind = "slice" /\ val.elem = "uint8")
\* The arguments a value contributes and the text that stands for it
ArgsFor(val) == IF IsSequence(val) THEN val.items ELSE <<val>>
MarkersFor(val) ==
    IF ~IsSequence(val) THEN <<"?">>
    ELSE IF Len(val.items) = 0 THEN <<"N", "U", "L", "L">>
    ELSE [k \in 1..(2 * Len(val.items) - 1) |-> IF k % 2 = 1 THEN "?" ELSE ","]

\* The text before token k since the token before it
Before(q, toks, k) == Slice(q, IF k = 1 THEN 0 ELSE toks[k - 1].end, toks[k].start)
\* The query with every token replaced by the text that stands for its value
Substituted(q, toks, f) ==
    Concat([k \in 1..Len(toks) |-> Before(q, toks, k) \o MarkersFor(f[ToLower(toks[k].name)])])
        \o SliceFrom(q, toks[Len(toks)].end)
\* The values of the tokens, token after token
ArgsInTokenOrder(toks, f) ==
    Concat([k \in 1..Len(toks) |-> ArgsFor(f[ToLower(toks[k].name)])])

\* The offset, in the substituted text, of the text that stands for token k
OffsetOf(q, toks, f, k) ==
    Len(Concat([j \in 1..(k - 1) |-> Before(q, toks, j) \o MarkersFor(f[ToLower(toks[j].name)])]))
        + Len(Before(q, toks, k))
\* The offsets of the "?" that stand for arguments in the substituted text
ArgumentMarks(q, toks, f) ==
    UNION { LET val == f[ToLower(toks[k].name)] IN
            { OffsetOf(q, toks, f, k) + 2 * (j - 1) : j \in 1..Len(ArgsFor(val)) }
          : k \in 1..Len(toks) }

\* Rebind, on the named path, found tokens and returned without an error
NamedSuccess ==
    /\ pc = "Rebind"
    /\ NamedPath(params)
    /\ findNamedParams(query).err = NoErr
    /\ Len(findNamedParams(query).toks) >= 1
    /\ ret.status = "ok"
    /\ ret.err = NoErr

\* C5: on the named path the arguments are the values of the tokens in the
\* left-to-right order of the tokens, a name that occurs K times giving its
\* value K times, and the i-th marker of the returned text stands for the
\* i-th returned argument: the markers of the text are those of the tokens.
C5_ArgsFollowTokens ==
    NamedSuccess =>
        LET toks == findNamedParams(query).toks IN
        \E f \in Bindings(params[1], toks) :
            /\ ret.args.items = ArgsInTokenOrder(toks, f)
            /\ ret.text = Renumbered(Substituted(query, toks, f), ph)
            /\ BareMarks(Substituted(query, toks, f)) = ArgumentMarks(query, toks, f)

\* What holds of C5: the arguments are the values of the tokens, in token
\* order.
C5_ArgsOnly ==
    NamedSuccess =>
        LET toks == findNamedParams(query).toks IN
        \E f \in Bindings(params[1], toks) : ret.args.items = ArgsInTokenOrder(toks, f)

\* C6: named binding replaces each token by the text that stands for its
\* value and appends the value's arguments: a sequence of n >= 1 elements
\* stands as n "?" joined by commas and gives its n elements in order, an
\* empty sequence stands as NULL and gives no argument, a slice of bytes and
\* every other scalar stands as one "?" and gives one argument.
C6_ValuesExpand ==
    (/\ pc = "bindNamedParams"
     /\ findNamedParams(query).err = NoErr
     /\ Len(findNamedParams(query).toks) >= 1
     /\ ret.status = "ok"
     /\ ret.err = NoErr) =>
        LET toks == findNamedParams(query).toks IN
        \E f \in Bindings(params[1], toks) :
            /\ ret.text = Substituted(query, toks, f)
            /\ ret.args.items = ArgsInTokenOrder(toks, f)

\* C6's case: two tokens bound, one to an empty sequence and one to a
\* sequence of two elements, or one to a slice of bytes and one to an array.
C6_Witness ==
    /\ pc = "bindNamedParams"
    /\ ret.status = "ok"
    /\ ret.err = NoErr
    /\ Len(params) = 1
    /\ LET toks == findNamedParams(query).toks IN
       /\ Len(toks) = 2
       /\ \E f \in Bindings(params[1], toks) :
            LET v1 == f[ToLower(toks[1].name)]
                v2 == f[ToLower(toks[2].name)]
            IN  /\ v1.kind = "slice" /\ v2.kind = "array" /\ Len(v2.items) = 2
                /\ \/ Len(v1.items) = 0 /\ Len(ret.args.items) = 2
                   \/ v1.elem = "uint8" /\ Len(ret.args.items) = 3

C8_PositionalPassthrough ==
    (pc = "Rebind" /\ ~NamedPath(params)) =>
        /\ ret.status = "ok"
        /\ ret.err = NoErr
        /\ ret.args.items = params
        /\ ret.text = Renumbered(query, ph)

\* What holds of C8: the same on every text all of whose skip regions close.
C8_OnClosedText ==
    (pc = "Rebind" /\ ~NamedPath(params) /\ ~Unterminated(query)) =>
        /\ ret.status = "ok"
        /\ ret.err = NoErr
        /\ ret.args.items = params
        /\ ret.text = Renumbered(query, ph)

\* C9: on the named path a token is resolved by its lowercased name: Rebind
\* fails when the argument offers no value under the lowercased name of some
\* token, and reports no missing value when it offers one for every token.
C9_NamesIgnoreCase ==
    (/\ pc = "Rebind"
     /\ NamedPath(params)
     /\ findNamedParams(query).err = NoErr
     /\ Len(findNamedParams(query).toks) >= 1) =>
        LET names == TokenNames(findNamedParams(query).toks) IN
        /\ ~(names \subseteq NamesOf(params[1])) => ret.status = "ok" /\ ret.err # NoErr
        /\ (names \subseteq NamesOf(params[1]) /\ ret.status = "ok") => ret.err # ErrMissingValue

\* C9's case: a token written in upper case resolved from an entry stored in
\* lower case.
C9_Witness ==
    /\ pc = "Rebind"
    /\ NamedPath(params)
    /\ params[1].kind = "map"
    /\ ret.status = "ok"
    /\ ret.err = NoErr
    /\ LET toks == findNamedParams(query).toks IN
       /\ Len(toks) >= 1
       /\ \E k \in 1..Len(toks) :
            /\ toks[k].name # ToLower(toks[k].name)
            /\ \A e \in 1..Len(params[1].items) : params[1].items[e].key # toks[k].name

\* C10: Rebind and bindNamedParams, called with one argument that is a nil
\* pointer to a record, return ErrNilParams, whatever the query.
C10_NilPointerFails ==
    (pc \in {"Rebind", "bindNamedParams"} /\ params = <<NilPtr("struct")>>) =>
        /\ ret.status = "ok"
        /\ ret.err = ErrNilParams

\* What holds of C10: bindNamedParams returns ErrNilParams for a nil pointer
\* when the query has a named token.
C10_WithTokens ==
    (/\ pc = "bindNamedParams"
     /\ params = <<NilPtr("struct")>>
     /\ findNamedParams(query).err = NoErr
     /\ Len(findNamedParams(query).toks) >= 1) =>
        /\ ret.status = "ok"
        /\ ret.err = ErrNilParams

-----------------------------------------------------------------------------
(* What the specification says of the Parameter Lookup Builder: the names   *)
(* of the entries an argument offers, one per entry.                        *)

\* The lowercased names of the entries of v, entry after entry: the keys of a
\* mapping; of a record, the tag or declared name of every exported field not
\* tagged "-", an embedded record (not tagged "-") standing for its own
\* entries and a nil embedded pointer for none.
RECURSIVE EntryNames(_)
EntryNames(v) ==
    CASE v.kind = "ptr" -> IF v.isNil THEN <<>> ELSE EntryNames(v.items[1])
      [] v.kind = "map" -> [k \in 1..Len(v.items) |-> ToLower(v.items[k].key)]
      [] v.kind = "struct" ->
            Concat([k \in 1..Len(v.items) |->
                      LET f == v.items[k] IN
                      IF f.tag = <<"-">> THEN <<>>
                      ELSE IF f.anonymous /\ derefChain(f.val).kind \in {"struct", "ptr"}
                      THEN EntryNames(f.val)
                      ELSE IF ~f.exported THEN <<>>
                      ELSE <<ToLower(IF f.tag = <<>> THEN f.name ELSE f.tag)>>])
      [] OTHER -> <<>>

\* Two entries of v resolve to one name
Collides(v) ==
    \E i, j \in 1..Len(EntryNames(v)) : i # j /\ EntryNames(v)[i] = EntryNames(v)[j]

\* C11: building the lookup fails with the DuplicateKey error whenever two
\* entries of the argument, two fields of a record (flattened ones included)
\* or two keys of a text-keyed mapping, resolve to the same lowercased name.
C11_CollisionIsAnError ==
    (pc = "buildParamLookup" /\ IsNamedShape(params[1]) /\ Collides(params[1])) =>
        /\ ret.status = "ok"
        /\ ret.err = ErrDuplicateKeyTag

\* What holds of C11: the same for the fields of a record, when the build
\* returns.
C11_OnRecords ==
    (/\ pc = "buildParamLookup"
     /\ IsNamedShape(params[1])
     /\ derefChain(params[1]).kind = "struct"
     /\ Collides(params[1])
     /\ ret.status = "ok") =>
        ret.err = ErrDuplicateKeyTag

-----------------------------------------------------------------------------
(* What the specification says of a column label: the label without its one *)
(* outer quote pair, in lower case.                                         *)

QuotePairs == { <<"\"", "\"">>, <<Backtick, Backtick>>, <<"[", "]">> }

IsQuoted(l) == Len(l) >= 2 /\ <<l[1], l[Len(l)]>> \in QuotePairs

Unquoted(l) == IF IsQuoted(l) THEN SubSeq(l, 2, Len(l) - 1) ELSE l

\* t is s with each of A..Z replaced by its lower-case letter and nothing else changed
IsLoweredAscii(t, s) ==
    /\ Len(t) = Len(s)
    /\ \A k \in 1..Len(s) :
          IF s[k] \in UpperLetters THEN t[k] = LowerOf[s[k]] ELSE t[k] = s[k]

LabelName(l) == [k \in 1..Len(Unquoted(l)) |-> IF Unquoted(l)[k] \in UpperLetters
                                                THEN LowerOf[Unquoted(l)[k]] ELSE Unquoted(l)[k]]

\* C12: the Column Normalizer removes exactly one matching outer quote pair
\* ("...", backticks, [...]) from a label of length >= 2, leaves every other
\* label unstripped, and lowercases the letters A..Z only; and the plan for a
\* destination type under a label is the plan under the label's bare
\* lower-case name, so "X", `X`, [X] and X give the same step.
C12_NormalizerStripsOneLayer ==
    /\ pc = "normalizeColAscii" => IsLoweredAscii(ret.text, Unquoted(ret.label))
    /\ (pc = "getPlan" /\ calls = 1 /\ Len(cursor.cols) = 1) =>
          LET bare == <<LabelName(cursor.cols[1])>>
              g == getPlan(NewMapper, dest, bare, colHash(bare))
          IN  ret.plan = g.plan /\ ret.err = g.err

C12_Witness ==
    /\ pc = "getPlan"
    /\ cursor.cols = <<(<<"[", "X", "]">>)>>
    /\ dest = Row
    /\ ret.err = NoErr
    /\ ret.plan.steps = <<makeFieldStep(Row, <<0>>)>>

-----------------------------------------------------------------------------
(* What the specification says of a scan: which destination types are       *)
(* composite, and when the current state is the result of scanning a row.   *)

\* A composite destination is a record or a pointer to one; any other is scalar
RECURSIVE IsComposite(_)
IsComposite(t) == t.kind = "struct" \/ (t.kind = "ptr" /\ IsComposite(t.elems[1]))
IsScalar(t) == ~IsComposite(t)

\* The state after scanWithMapper ran on a first row, called directly or by Get
RowScanned ==
    \/ pc = "scanWithMapper"
    \/ pc = "Get" /\ ~cursor.queryErr /\ cursor.failAt # 1 /\ Len(cursor.data) >= 1

ColumnCountMismatch == {ErrScannerColumns, ErrPrimitiveColumns}

\* C13: a row of zero columns fails with the ZeroColumns error whatever the
\* destination type, a row of two or more columns into a scalar destination
\* fails with a ColumnCountMismatch error whether or not the type can decode
\* itself, and in both cases the zero value of the type is all that is returned.
C13_ColumnCountErrors ==
    RowScanned =>
        /\ Len(cursor.cols) = 0 => ret = Scanned("ok", Zero(dest), ErrZeroColumns)
        /\ (Len(cursor.cols) >= 2 /\ IsScalar(dest)) =>
              /\ ret.status = "ok"
              /\ ret.err \in ColumnCountMismatch
              /\ ret.value = Zero(dest)

C13_Witness ==
    /\ pc = "scanWithMapper"
    /\ calls = 2
    /\ dest = AnyScanner
    /\ Len(cursor.cols) = 2
    /\ ret.err = ErrScannerColumns

\* The steps of a plan that scan into a field whose type has a Scan method
\* are direct scans
ScannerFieldsDirect(p) ==
    \A i \in 1..Len(p.steps) :
        (p.steps[i].kind # stepDrop /\ implementsScanner(fieldTypeByPath(p.rt, p.steps[i].fpath)))
            => p.steps[i].kind = stepDirect

\* C14: a destination type whose pointer form has a Scan method, a record
\* type included, is planned under one column as a single WholeDecode step
\* and its Scan method receives the driver value of the column; a field whose
\* type has a Scan method is planned as a Direct scan into the field.
C14_ScannerReceivesValue ==
    /\ (pc = "getPlan" /\ implementsScanner(dest) /\ Len(cursor.cols) = 1) =>
          /\ ret.err = NoErr
          /\ Len(ret.plan.steps) = 1
          /\ ret.plan.steps[1].kind = stepWhole
    /\ (pc = "getPlan" /\ ret.err = NoErr /\ IsComposite(dest)) => ScannerFieldsDirect(ret.plan)
    /\ (pc = "scanWithMapper" /\ implementsScanner(dest) /\ Len(cursor.cols) = 1) =>
          /\ ret.status = "ok"
          /\ ret.err = NoErr
          /\ ret.value.got = <<cursor.data[cursor.nexts][1]>>

\* What holds of C14: the same for the scalar destination types, and for the
\* fields of every composite one
C14_OnScalarTypes ==
    /\ (pc = "getPlan" /\ implementsScanner(dest) /\ IsScalar(dest) /\ Len(cursor.cols) = 1) =>
          /\ ret.err = NoErr
          /\ Len(ret.plan.steps) = 1
          /\ ret.plan.steps[1].kind = stepWhole
    /\ (pc = "getPlan" /\ ret.err = NoErr /\ IsComposite(dest)) => ScannerFieldsDirect(ret.plan)
    /\ (pc = "scanWithMapper" /\ implementsScanner(dest) /\ IsScalar(dest) /\ Len(cursor.cols) = 1) =>
          /\ ret.status = "ok"
          /\ ret.err = NoErr
          /\ ret.value.got = <<cursor.data[cursor.nexts][1]>>

-----------------------------------------------------------------------------
(* What the specification says of a narrow integer destination              *)

\* v fits a signed integer of w bits (the values of the model fit 32 bits)
Representable(v, w) == w >= 32 \/ (0 - 2^(w - 1) <= v /\ v < 2^(w - 1))

\* The signed integer of w bits that has the low w bits of v
Wrapped(v, w) == CHOOSE n \in (0 - 2^(w - 1))..(2^(w - 1) - 1) : (n - v) % 2^w = 0

\* An int64 was scanned from a single column labelled x into an integer
\* destination, or into the integer field X of a Row, on a cursor that closes
\* without error
IntegerScanned ==
    /\ RowScanned
    /\ ~cursor.closeErr
    /\ cursor.cols = <<(<<"x">>)>>
    /\ cursor.data[1][1].kind = "int64"
    /\ dest.kind \in IntKinds \/ dest = Row

SourceInt == cursor.data[1][1].int
DestBits == IF dest = Row THEN BitsOf(Row.fields[1].type.kind) ELSE BitsOf(dest.kind)
DestInt == IF dest = Row THEN ret.value.items[1].int ELSE ret.value.int

\* C15: an int64 value v scanned into an integer destination of w bits,
\* built-in or named, arrives as exactly v with no error when v fits w bits,
\* and when it does not fit the scan does not succeed with the low w bits of v.
C15_NoSilentOverflow ==
    IntegerScanned =>
        IF Representable(SourceInt, DestBits)
        THEN ret.status = "ok" /\ ret.err = NoErr /\ DestInt = SourceInt
        ELSE ~(ret.status = "ok" /\ ret.err = NoErr /\ DestInt = Wrapped(SourceInt, DestBits))

\* What holds of C15: a value that fits the destination arrives unchanged
C15_RepresentableArrives ==
    (IntegerScanned /\ Representable(SourceInt, DestBits)) =>
        (ret.status = "ok" /\ ret.err = NoErr /\ DestInt = SourceInt)

-----------------------------------------------------------------------------
(* What the specification says of Get and its cursor                        *)

\* The query ran and the driver has a first row to give
HasFirstRow == ~cursor.queryErr /\ cursor.failAt # 1 /\ Len(cursor.data) >= 1
\* The query ran and the driver ends, without an error, before any row
EndsBeforeFirstRow == ~cursor.queryErr /\ cursor.failAt # 1 /\ Len(cursor.data) = 0
\* The query ran and the first advance of the cursor fails
FirstAdvanceFails == ~cursor.queryErr /\ cursor.failAt = 1

\* C16: Get returns sql.ErrNoRows exactly when the cursor gives no first row
\* and reports no error; when the first advance fails, Get returns the
\* cursor's error; when there is a first row, it is the row Get scans, and
\* the driver is never asked for another.
C16_GetReadsOnlyFirstRow ==
    pc = "Get" =>
        /\ (ret.status = "ok" /\ ret.err = ErrNoRows) <=> EndsBeforeFirstRow
        /\ FirstAdvanceFails => (ret.status = "ok" /\ ret.err = ErrNext)
        /\ HasFirstRow =>
              /\ cursor.nexts = 1
              /\ calls = 1 =>
                    ret.value = scanWithMapper(NewMapper, dest, cursor.cols, cursor.data[1]).res.value

C16_Witness ==
    /\ pc = "Get"
    /\ dest = TInt64
    /\ cursor.data = <<Seven, Eight>>
    /\ cursor.failAt = 0
    /\ ~cursor.queryErr
    /\ cursor.nexts = 1
    /\ ret = Scanned("ok", [Zero(TInt64) EXCEPT !.int = 7], NoErr)

-----------------------------------------------------------------------------
(* What the specification says of concurrent plan lookups                   *)

\* The plan, or the error, of one caller alone on a new Mapper
SequentialBuild == getPlan(NewMapper, dest, theCols, colHash(theCols))

\* C17: whatever the interleaving of the callers of getPlan for one
\* destination type and one set of labels, every caller returns the plan (or
\* the error) a single caller alone would get, and neither cache ever holds a
\* plan or a field index that is partial or differs from it.
C17_ConcurrentPlansComplete ==
    pc = "concurrent" =>
        /\ \A p \in Procs :
              procs[p].at = "returned" =>
                  /\ procs[p].plan = SequentialBuild.plan
                  /\ procs[p].err = SequentialBuild.err
        /\ \A e \in mapper.planCache : e.key = theKey /\ e.value = SequentialBuild.plan
        /\ \A e \in mapper.structIndexCache : e.key = dest /\ e.value = buildStructIndex(dest)

\* Two callers both missed the cache, both built the plan and both returned
C17_Witness ==
    /\ pc = "concurrent"
    /\ dest = Row
    /\ Len(theCols) = 2
    /\ \A p \in {1, 2} : procs[p].at = "returned" /\ procs[p].built = 2
    /\ procs[1].plan.steps[1].kind = stepIndirect

-----------------------------------------------------------------------------
(* What the specification says of a field tagged "-": the record without it *)

Dashed(f) == f.tag = <<"-">>
\* An anonymous field that holds a record or a pointer
Embedded(f) == f.anonymous /\ f.val.kind \in {"struct", "ptr"}

RECURSIVE FieldsOf(_)
\* The fields of a record, or of the record behind a pointer chain
FieldsOf(v) ==
    CASE v.kind = "struct" -> v.items
      [] v.kind = "ptr" /\ ~v.isNil -> FieldsOf(v.items[1])
      [] OTHER -> <<>>

\* A field tagged "-"; with plainOnly, one that is not an anonymous embedded record
Dropped(f, plainOnly) == Dashed(f) /\ (plainOnly => ~Embedded(f))

RECURSIVE WithoutFields(_, _)
\* The argument v without the dropped fields of its record
WithoutFields(v, plainOnly) ==
    CASE v.kind = "struct" ->
            [v EXCEPT !.items = SelectSeq(v.items, LAMBDA f : ~Dropped(f, plainOnly))]
      [] v.kind = "ptr" /\ ~v.isNil -> [v EXCEPT !.items = <<WithoutFields(v.items[1], plainOnly)>>]
      [] OTHER -> v

HasDropped(v, plainOnly) == \E k \in 1..Len(FieldsOf(v)) : Dropped(FieldsOf(v)[k], plainOnly)

\* C18: a field tagged "-" is left out of the lookup altogether, an anonymous
\* embedded record tagged "-" with all its sub-fields included: the builder
\* returns what it returns for the record without its fields tagged "-".
C18_DashExcludesField ==
    (pc = "buildParamLookup" /\ HasDropped(params[1], FALSE)) =>
        ret = Built(buildParamLookup(WithoutFields(params[1], FALSE)))

\* What holds of C18: the same for the fields tagged "-" that are not
\* anonymous embedded records
C18_OnPlainFields ==
    (pc = "buildParamLookup" /\ HasDropped(params[1], TRUE)) =>
        ret = Built(buildParamLookup(WithoutFields(params[1], TRUE)))

-----------------------------------------------------------------------------
(* What the specification says of an anonymous embedded pointer to a record *)

\* An anonymous field that holds a nil pointer
NilEmbedded(f) == f.anonymous /\ f.val.kind = "ptr" /\ f.val.isNil
\* An anonymous field, without a tag, that holds a pointer to a record
NonNilEmbedded(f) ==
    f.anonymous /\ f.tag = <<>> /\ f.val.kind = "ptr" /\ ~f.val.isNil /\ f.val.items[1].kind = "struct"

\* The record, or the record behind the pointer, without its nil embedded pointers
RECURSIVE WithoutNilEmbedded(_)
WithoutNilEmbedded(v) ==
    CASE v.kind = "struct" -> [v EXCEPT !.items = SelectSeq(v.items, LAMBDA f : ~NilEmbedded(f))]
      [] v.kind = "ptr" /\ ~v.isNil -> [v EXCEPT !.items = <<WithoutNilEmbedded(v.items[1])>>]
      [] OTHER -> v

HasNilEmbedded(v) == \E k \in 1..Len(FieldsOf(v)) : NilEmbedded(FieldsOf(v)[k])
\* The lookup built from the other fields of the record
OtherFields == Built(buildParamLookup(WithoutNilEmbedded(params[1])))
\* The name a field has of its own
OwnName(f) == ToLower(IF f.tag = <<>> THEN f.name ELSE f.tag)

EntriesOf(m) == { m[k] : k \in 1..Len(m) }

\* The lookup holds every sub-field of the record behind the field f
Flattened(m, f) ==
    \A k \in 1..Len(f.val.items[1].items) :
        LET g == f.val.items[1].items[k]
        IN  Entry(OwnName(g), g.val) \in EntriesOf(m)

\* C19: for a record with a nil anonymous embedded pointer to a record, the
\* build succeeds whenever it succeeds on the other fields, the lookup holds
\* the other fields, and holds nothing of the sub-tree; with a pointer that is
\* not nil, a build that succeeds has the sub-tree's fields under their names.
C19_NilEmbeddedPointerSkipped ==
    pc = "buildParamLookup" =>
        /\ (HasNilEmbedded(params[1]) /\ OtherFields.status = "ok" /\ OtherFields.err = NoErr) =>
              /\ ret.status = "ok"
              /\ ret.err = NoErr
              /\ EntriesOf(OtherFields.m) \subseteq EntriesOf(ret.m)
              /\ \A e \in EntriesOf(ret.m) \ EntriesOf(OtherFields.m) :
                    \E k \in 1..Len(FieldsOf(params[1])) :
                        NilEmbedded(FieldsOf(params[1])[k]) /\ e.key = OwnName(FieldsOf(params[1])[k])
        /\ (ret.status = "ok" /\ ret.err = NoErr) =>
              \A k \in 1..Len(FieldsOf(params[1])) :
                  NonNilEmbedded(FieldsOf(params[1])[k]) => Flattened(ret.m, FieldsOf(params[1])[k])

\* What holds of C19: a pointer that is not nil is flattened
C19_NonNilFlattened ==
    (pc = "buildParamLookup" /\ ret.status = "ok" /\ ret.err = NoErr) =>
        \A k \in 1..Len(FieldsOf(params[1])) :
            NonNilEmbedded(FieldsOf(params[1])[k]) => Flattened(ret.m, FieldsOf(params[1])[k])

-----------------------------------------------------------------------------
(* What the specification says of the tokens of a text, stated by position  *)

\* The offsets outside every skip region that hold a colon
Colons(q) == { i \in Outside(q, 0).at : At(q, i) = ":" }
\* The first colon of the unbroken run of colons that i is in
ColonRunStart(q, i) == Least({ b \in 0..i : \A k \in b..i : k \in Colons(q) })
\* The colons of "::" cast markers: the colons of a run pair up from its
\* start, and a colon left over at the end of the run is in no pair
InCast(q, i) ==
    \/ (i - ColonRunStart(q, i)) % 2 = 1
    \/ (i + 1) \in Colons(q)
\* The offsets at which a named token starts: a colon outside every region
\* and every cast marker, followed by a letter, a digit or an underscore
TokenStarts(q) ==
    { i \in Colons(q) : ~InCast(q, i) /\ i + 1 < Len(q) /\ IsIdentChar(At(q, i + 1)) }

\* C20: when the Extractor succeeds, its tokens are in strictly increasing
\* order without overlap, one for every occurrence; each is ":" and a
\* non-empty name of letters, digits and underscores as the text has them at
\* start..end; none touches a skip region; none starts at a colon of a "::".
C20_TokensWellFormed ==
    (pc = "findNamedParams" /\ ret.err = NoErr) =>
        /\ \A k \in 1..Len(ret.toks) :
              LET t == ret.toks[k] IN
              /\ 0 <= t.start /\ t.start < t.end /\ t.end <= Len(query)
              /\ Slice(query, t.start, t.end) = <<":">> \o t.name
              /\ t.name # <<>>
              /\ \A j \in 1..Len(t.name) : IsIdentChar(t.name[j])
              /\ \A i \in t.start..(t.end - 1) : i \in Outside(query, 0).at
              /\ ~InCast(query, t.start)
              /\ k < Len(ret.toks) => t.end <= ret.toks[k + 1].start
        /\ { ret.toks[k].start : k \in 1..Len(ret.toks) } = TokenStarts(query)

\* A token that starts right after a cast marker, as in ":::a"
C20_Witness ==
    /\ pc = "findNamedParams"
    /\ ret.err = NoErr
    /\ \E k \in 1..Len(ret.toks) :
          /\ ret.toks[k].start >= 2
          /\ InCast(query, ret.toks[k].start - 1)
          /\ InCast(query, ret.toks[k].start - 2)

-----------------------------------------------------------------------------
(* C21 *)

\* The plan getPlan returned without an error for the labels of the cursor
PlanReturned == pc = "getPlan" /\ ret.err = NoErr

\* Step st is what the column named c asks for on the destination type rt:
\* a drop when the FieldIndex of rt has no such name, a direct or indirect
\* step on the indexed field otherwise
StepFitsColumn(rt, st, c) ==
    LET fi == buildStructIndex(rt) IN
    /\ st.kind = stepDrop <=> ~IndexHas(fi, c)
    /\ IndexHas(fi, c) =>
          /\ st.kind \in {stepDirect, stepIndirect}
          /\ st.fpath = IndexPath(fi, c)

\* C21: every plan getPlan returns, built or cached, has one step per column
\* of the caller's list, and on a struct destination step i is a drop exactly
\* when the normalized name of column i is not in the FieldIndex, and a direct
\* or indirect step on the indexed field otherwise
C21_PlanFitsColumns ==
    PlanReturned =>
        /\ Len(ret.plan.steps) = Len(cursor.cols)
        /\ isStruct(dest) =>
              \A i \in 1..Len(cursor.cols) :
                  StepFitsColumn(dest, ret.plan.steps[i], normalized(cursor.cols)[i])

\* What holds: the plan of the first call on a Mapper fits its columns, and a
\* plan of any call has one step per column
C21_FirstPlanFitsColumns ==
    PlanReturned =>
        /\ Len(ret.plan.steps) = Len(cursor.cols)
        /\ (isStruct(dest) /\ calls = 1) =>
              \A i \in 1..Len(cursor.cols) :
                  StepFitsColumn(dest, ret.plan.steps[i], normalized(cursor.cols)[i])

-----------------------------------------------------------------------------
(* C22 *)

\* A field the FieldIndex leaves out: unexported and not embedded, or tagged -
Excluded(f) == (~f.exported /\ ~f.anonymous) \/ f.tag = <<"-">>

\* The lowercased name of a field: that of its tag, or its own
EffectiveName(f) ==
    ToLower(IF parseTag(f.tag).name = <<>> THEN f.name ELSE parseTag(f.tag).name)

\* A field whose record is flattened into the enclosing one: tagged inline, or
\* embedded with no tag, or embedded anywhere below an inline tag
Flattens(f, forced) ==
    /\ parseTag(f.tag).inline \/ (f.anonymous /\ (forced \/ f.tag = <<>>))
    /\ derefPtr(f.type).kind = "struct"

RECURSIVE Candidates(_, _, _)
\* The fields that ask for an entry, in declaration order, depth first: the
\* name and the path of each
Candidates(t0, base, forced) ==
    LET t == derefPtr(t0) IN
    Concat([i \in 1..Len(t.fields) |->
        LET f == t.fields[i] IN
        IF Excluded(f) THEN <<>>
        ELSE IF Flattens(f, forced)
        THEN Candidates(f.type, Append(base, i - 1), parseTag(f.tag).inline)
        ELSE <<[name |-> EffectiveName(f), path |-> Append(base, i - 1)]>>])

RECURSIVE FieldAt(_, _)
\* The field declaration at a path
FieldAt(t, path) ==
    LET f == derefPtr(t).fields[path[1] + 1] IN
    IF Len(path) = 1 THEN f ELSE FieldAt(f.type, Tail(path))

\* Two fields of the type ask for the same name
NameMetTwice(t) ==
    LET cs == Candidates(t, <<>>, FALSE) IN
    \E i, j \in 1..Len(cs) : i < j /\ cs[i].name = cs[j].name

\* C22: the FieldIndex has no entry for an unexported field that is not
\* embedded nor for a field tagged -, and when several fields, own or
\* flattened, have the same lowercased name, the entry is the path of the
\* first one in declaration order, depth first; the later ones are ignored
C22_FirstFieldWins ==
    pc = "buildStructIndex" =>
        LET fi == ret.fi
            cs == Candidates(dest, <<>>, FALSE)
        IN  /\ \A k \in 1..Len(fi) : \A n \in 1..Len(fi[k].path) :
                  ~Excluded(FieldAt(dest, SubSeq(fi[k].path, 1, n)))
            /\ \A k, j \in 1..Len(fi) : fi[k].name = fi[j].name => k = j
            /\ { fi[k].name : k \in 1..Len(fi) } = { cs[k].name : k \in 1..Len(cs) }
            /\ \A k \in 1..Len(fi) :
                  fi[k].path = cs[Least({ j \in 1..Len(cs) : cs[j].name = fi[k].name })].path

\* A type with a left-out field and two fields of one name, one of them
\* flattened
C22_Witness ==
    /\ pc = "buildStructIndex"
    /\ NameMetTwice(dest)
    /\ \E i \in 1..Len(derefPtr(dest).fields) : Excluded(derefPtr(dest).fields[i])
    /\ \E k \in 1..Len(ret.fi) : Len(ret.fi[k].path) > 1

-----------------------------------------------------------------------------
(* C23 *)

\* A caller that missed the plan cache and has not stored its plan yet
Building(p) == procs[p].at \in {"structIndex", "storeIndex", "steps", "scalar"}

\* No key leaves a cache
KeysKept ==
    /\ \A e \in mapper.planCache : CacheHas(mapper'.planCache, e.key)
    /\ \A e \in mapper.structIndexCache : CacheHas(mapper'.structIndexCache, e.key)

\* The object stored under a key stays the one stored there, unless a caller
\* that missed that key is still building
ObjectsKept ==
    /\ \A e \in mapper.planCache :
          (e.key # theKey \/ \A p \in Procs : ~Building(p)) => e \in mapper'.planCache
    /\ \A e \in mapper.structIndexCache :
          (e.key # dest \/ \A p \in Procs : ~Building(p)) => e \in mapper'.structIndexCache

\* A lookup of a stored key returns the stored object and stores nothing
HitReturnsStored ==
    \A p \in Procs :
        /\ (procs[p].at = "getPlan" /\ procs'[p].at # "getPlan"
                /\ CacheHas(mapper.planCache, theKey)) =>
              /\ procs'[p].at = "returned"
              /\ procs'[p].ref = CacheRef(mapper.planCache, theKey)
              /\ procs'[p].plan = CacheLoad(mapper.planCache, theKey)
              /\ mapper' = mapper
        /\ (procs[p].at = "structIndex" /\ procs'[p].at # "structIndex"
                /\ CacheHas(mapper.structIndexCache, dest)) =>
              /\ procs'[p].at = "steps"
              /\ procs'[p].fi = CacheLoad(mapper.structIndexCache, dest)
              /\ mapper' = mapper

\* C23: the plan cache and the FieldIndex cache only grow: a stored key is
\* never removed, and a lookup of a stored key that does not race with a build
\* returns the stored object itself and builds nothing, so that two lookups in
\* a row return the same object
C23_CachesAppendOnly == [][KeysKept /\ ObjectsKept /\ HitReturnsStored]_vars

\* In a later round every caller got the plan stored in an earlier round
C23_Witness ==
    /\ pc = "concurrent"
    /\ calls = 1
    /\ dest = Row
    /\ \A p \in Procs : procs[p].at = "returned" /\ procs[p].built = 0 /\ procs[p].err = NoErr
    /\ \A p \in Procs : procs[p].ref = CacheRef(mapper.planCache, theKey)

-----------------------------------------------------------------------------
(* C24 *)

\* The call of the Row Scanner in progress
TheScan == procs[1]

\* The columns of the plan with an indirect step, and the first n of them
IndirectColumns == { i \in 1..Len(TheScan.plan.steps) : TheScan.plan.steps[i].kind = stepIndirect }
FirstIndirect(n) == { i \in IndirectColumns : Cardinality({ j \in IndirectColumns : j < i }) < n }

\* The columns whose conversion ran
Ran == { TheScan.ran[k] : k \in 1..Len(TheScan.ran) }

\* The value the conversion of column i writes: the temporary, in the type of
\* the field
ConvertedField(i) ==
    LET st == TheScan.plan.steps[i]
    IN  post(st, allocated(Zero(fieldTypeByPath(dest, st.fpath))), TheScan.tmps[i])

\* The column whose conversion fails: the first whose field cannot be written
FailingColumn ==
    Least({ i \in IndirectColumns :
              TheScan.plan.isStruct /\ pathPanics(dest, TheScan.plan.steps[i].fpath, FALSE) })

\* C24: the finalize step runs only after the raw row scan has succeeded (if
\* it fails, no conversion runs and no field is written by one); it applies
\* the indirect steps in column order and stops at the first failure, leaving
\* the fields converted before it populated and the later ones untouched.
C24_FinalizeAfterRawScan ==
    (pc = "scan" /\ TheScan.at \in {"rows.Scan", "cleanup", "returned", "panic"} /\ TheScan.plan # NoPlan) =>
        /\ TheScan.ran # <<>> => TheScan.scanned
        /\ ~TheScan.scanned => \A i \in IndirectColumns :
              valueAt(TheScan.root, TheScan.plan.steps[i].fpath)
                  = Zero(fieldTypeByPath(dest, TheScan.plan.steps[i].fpath))
        /\ \A k, j \in 1..Len(TheScan.ran) : k < j => TheScan.ran[k] < TheScan.ran[j]
        /\ Ran = FirstIndirect(Len(TheScan.ran))
        /\ \A i \in IndirectColumns :
              LET fpath == TheScan.plan.steps[i].fpath
                  last == { j \in Ran : TheScan.plan.steps[j].fpath = fpath }
              IN  valueAt(TheScan.root, fpath) =
                      IF last = {} THEN Zero(fieldTypeByPath(dest, fpath))
                      ELSE ConvertedField(CHOOSE j \in last : \A l \in last : l <= j)
        /\ (TheScan.at = "panic" /\ TheScan.scanned) =>
              Ran = { i \in IndirectColumns : i < FailingColumn }
        /\ (TheScan.at = "returned" /\ TheScan.scanned) => Ran = IndirectColumns

\* The conversion of the first column ran, that of the second failed
C24_Witness ==
    /\ pc = "scan"
    /\ TheScan.at = "panic"
    /\ TheScan.scanned
    /\ TheScan.ran = <<1>>
    /\ valueAt(TheScan.root, <<0>>).int = 7

\* What else holds: the call step by step returns what scanWithMapper returns
C24_StepsAgreeWithScan ==
    (pc = "scan" /\ TheScan.at \in {"returned", "panic"}) =>
        LET s == scanWithMapper(NewMapper, dest, cursor.cols, cursor.data[cursor.nexts]).res
        IN  /\ s.status = (IF TheScan.at = "panic" THEN "panic" ELSE "ok")
            /\ s.err = TheScan.err
            /\ (s.status = "ok" /\ s.err = NoErr) => s.value = TheScan.root

-----------------------------------------------------------------------------
(* C25 *)

\* Get or Query has ended
CallEnded == pc \in {"Get", "Query"}

\* The cursor as the backend handed it out, and the same with a Close that
\* does not fail
CursorAtStart == [cursor EXCEPT !.nexts = 0, !.closed = FALSE, !.lasterr = NoErr, !.closes = 0]
CursorClosingWell == [CursorAtStart EXCEPT !.closeErr = FALSE]

\* The error of the same call when Close does not fail: the earlier error
EarlierErr ==
    IF pc = "Get" THEN Get(NewMapper, dest, CursorClosingWell).res.err
    ELSE Query(NewMapper, dest, CursorClosingWell).res.err

\* C25: once the backend's query call has succeeded, Query and Get close the
\* cursor exactly once on every path; the error of Close is returned only when
\* there is no earlier error and never replaces one; and Query returns a nil
\* slice, never a partial one, when a row scan fails or the cursor reports an
\* error after the loop.
C25_CursorClosedOnce ==
    CallEnded =>
        /\ ~cursor.queryErr => (cursor.closed /\ cursor.closes = 1)
        /\ EarlierErr # NoErr => ret.err = EarlierErr
        /\ ret.err = ErrClose => (EarlierErr = NoErr /\ cursor.closeErr)
        /\ (pc = "Query" /\ ret.status = "ok" /\ ret.err # NoErr) => ret.out = NilSlice

\* Query scanned a first row, failed on the second, and the driver's Close
\* failed too
C25_Witness ==
    /\ pc = "Query"
    /\ cursor.closeErr
    /\ cursor.nexts = 2
    /\ ret.err = ErrConvertNull
    /\ ret.out = NilSlice
    /\ cursor.closes = 1

-----------------------------------------------------------------------------
(* C26 *)

\* The goroutine that builds the FieldIndex
TheWalk == procs[1]

\* C26: building the FieldIndex terminates for every destination type: the
\* walk over inline and embedded records is bounded, so that on a type that
\* reaches itself through an inline or embedded pointer it fails closed or
\* returns a finite index, and never recurses until the stack is exhausted
C26_WalkIsBounded ==
    pc = "walk" => TheWalk.at # "stack overflow"

\* What holds: on a type that does not reach itself through an inline or
\* embedded field the walk never exhausts the stack, and it returns the index
\* of buildStructIndex
C26_OnAcyclicTypes ==
    (pc = "walk" /\ dest \notin {Node, List, Ping}) =>
        /\ TheWalk.at # "stack overflow"
        /\ TheWalk.at = "returned" => TheWalk.idx = buildStructIndex(dest)

-----------------------------------------------------------------------------
(* C27 *)

\* C27: Rebind ends without a runtime fault on every query text, dialect and
\* argument list: the Extractor and the Placeholder Rewriter move forward at
\* every turn of their loops and never slice the text with an end below the
\* start, an unterminated region included.
C27_RebindEnds ==
    pc \in {"Rebind", "rewritePlaceholders"} => ret.status = "ok"

\* What holds: the Extractor returns on every text, and Rebind returns on
\* every text all of whose skip regions close when the arguments are passed
\* through; with the question dialect the rewriter returns on every text
C27_EndsOnClosedText ==
    /\ (pc = "Rebind" /\ ~Unterminated(query) /\ ~NamedPath(params)) => ret.status = "ok"
    /\ (pc = "rewritePlaceholders" /\ (~Unterminated(query) \/ ph = PlaceholderQuestion)) =>
          ret.status = "ok"
    /\ (pc = "Rebind" /\ Unterminated(query) /\ ~NamedPath(params) /\ ph # PlaceholderQuestion) =>
          ret.status \in {"hang", "panic"}

-----------------------------------------------------------------------------
(* C28 *)

\* What a dialect's marker begins with, before the number
MarkerPrefix(p) ==
    IF p = PlaceholderDollar THEN <<"$">>
    ELSE IF p = PlaceholderAtP THEN <<"@", "p">>
    ELSE <<":">>

\* The end of the digits that begin at offset j
DigitsEnd(t, j) == Least({ e \in j..Len(t) : e = Len(t) \/ ~IsDigit(At(t, e)) })

\* The offsets of a text at which a numbered marker of the dialect begins
MarkerStarts(t, p) ==
    { i \in 0..(Len(t) - 1) :
        /\ hasPrefix(SliceFrom(t, i), MarkerPrefix(p))
        /\ i + Len(MarkerPrefix(p)) < Len(t)
        /\ IsDigit(At(t, i + Len(MarkerPrefix(p)))) }

\* The markers of the text are as many as the arguments and numbered from 1
MarkersMatchArgs ==
    LET ms == MarkerStarts(ret.text, ph)
    IN  /\ Cardinality(ms) = Len(ret.args.items)
        /\ \A i \in ms :
              Slice(ret.text, i + Len(MarkerPrefix(ph)),
                    DigitsEnd(ret.text, i + Len(MarkerPrefix(ph))))
                  = Itoa(1 + Cardinality({ j \in ms : j < i }))

\* Rebind returned without an error on the named path, for a dialect with
\* numbered markers
NumberedNamedSuccess ==
    /\ pc = "Rebind"
    /\ NamedPath(params)
    /\ ph # PlaceholderQuestion
    /\ ret.status = "ok"
    /\ ret.err = NoErr

\* C28: whenever Rebind succeeds on the named path with a dialect other than
\* the question dialect, the returned text has as many markers as there are
\* returned arguments, numbered 1..len(args), whatever the query: with bare ?
\* next to named tokens, or with $ next to a token.
C28_MarkersMatchArguments ==
    NumberedNamedSuccess => MarkersMatchArgs

\* What holds: the same on every query without a bare ? outside skip regions
C28_WithoutBareMarks ==
    (NumberedNamedSuccess /\ BareMarks(query) = {}) => MarkersMatchArgs

-----------------------------------------------------------------------------
(* C29 *)

\* What Rebind returns for the call's inputs when the mapping is iterated in
\* the order o
RebindInOrder(o) ==
    Rebind(query, ph, IF Len(params) = 1 THEN <<Iterated(params[1], o)>> ELSE params)

\* The orders in which the runtime may iterate the argument
OrdersOfCall == IF Len(params) = 1 THEN MapOrders(params[1]) ELSE { <<>> }

\* C29: Rebind is deterministic: the same query text, dialect and arguments
\* give the same text, the same arguments and the same error, also when the
\* argument is a text-keyed mapping with keys that differ only in letter case
C29_RebindDeterministic ==
    pc = "Rebind" => \A o \in OrdersOfCall : ret = RebindInOrder(o)

\* What holds: the same whenever no two keys of the mapping have the same
\* lowercased name
C29_WithoutCollidingKeys ==
    (pc = "Rebind" /\ ~(Len(params) = 1 /\ Collides(params[1]))) =>
        \A o \in OrdersOfCall : ret = RebindInOrder(o)

-----------------------------------------------------------------------------
(* C30 *)

\* The plan built for the destination type and the labels of the cursor on a
\* Mapper with empty caches
FreshPlan == getPlan(NewMapper, dest, normalized(cursor.cols), colHash(normalized(cursor.cols))).plan

\* The bytes the hash is fed for a list of labels: each label, then a 0 byte
RECURSIVE HashedBytes(_)
HashedBytes(cols) ==
    IF cols = <<>> THEN <<>>
    ELSE [k \in 1..Len(cols[1]) |-> ByteOf(cols[1][k])] \o <<0>> \o HashedBytes(Tail(cols))

\* Another list of labels of the model that gives the hash the same bytes
SharesHashedBytes(cols) ==
    \E other \in ColumnLists :
        /\ normalized(other) # normalized(cols)
        /\ Len(other) = Len(cols)
        /\ HashedBytes(normalized(other)) = HashedBytes(normalized(cols))

\* C30: after any sequence of scans on one Mapper, the plan the cache returns
\* for a destination type and a column list is the plan built fresh for them,
\* never the plan of another list with the same count and the same hash, such
\* as lists whose names hold the separator byte 0.
C30_CachedPlanIsFreshPlan ==
    PlanReturned => ret.plan = FreshPlan

\* What holds: the same for every column list whose hashed bytes no other
\* list of the same length shares
C30_WithoutSharedBytes ==
    (PlanReturned /\ ~SharesHashedBytes(cursor.cols)) => ret.plan = FreshPlan

====
